---- MODULE Spec2Model ----
(***************************************************************************)
(* State-machine model of the identity / authorization core of             *)
(* FishnetUserSystem: sessions, SSO authorization codes, the RBAC          *)
(* permission resolver and its permission cache.                           *)
(*                                                                         *)
(* Time is an integer clock counting seconds; it advances in steps of      *)
(* TickStep seconds.                                                       *)
(* Opaque random tokens are modelled by the index of the row they belong   *)
(* to (tokens are unique columns), an unknown token by an index that has   *)
(* no row.                                                                 *)
(***************************************************************************)
EXTENDS Integers, Sequences, FiniteSets, TLC

\* ---------------------------------------------------------------- bounds
MaxTime == 400
TickStep == 200
MaxSessions == 1
MaxCodes == 1
MaxTokens == 1
MaxHalfHours == 2

\* ------------------------------------------------------ program constants
\* timedelta(minutes=5) of generate_auth_code
AUTH_CODE_MINUTES == 5
\* settings.CACHE_PERMISSION_TTL, seconds
CACHE_PERMISSION_TTL == 1800
\* settings.SESSION_EXPIRE_HOURS
SESSION_EXPIRE_HOURS == 24
\* settings.JWT_ACCESS_TOKEN_EXPIRE_MINUTES
JWT_ACCESS_TOKEN_EXPIRE_MINUTES == 30

\* timedelta(minutes=m), timedelta(hours=h) in seconds
minutes(m) == m * 60
hours(h) == h * 3600

\* None, for values that are strings or records
NULL == "NULL"
\* None, for row indexes and tokens
NoRow == 0

\* ------------------------------------------------------------- the store
\* rows of the users table (no modelled operation changes them)
Users == {"alice", "bob", "root"}

users ==
  [u \in Users |->
     [is_active |-> (u # "bob"), is_superuser |-> (u = "root")]]

\* usernames a login request may name
Usernames == Users \cup {"nobody"}

\* user_crud.get / get_by_username: the row, or NULL
user_get(u) == IF u \in Users THEN u ELSE NULL

\* settings.ALLOWED_PROJECTS and the keys of settings.PROJECT_URLS
ALLOWED_PROJECTS == {"project-a", "project-b", "project-c"}

\* settings.PROJECT_URLS, each URL split as urlparse splits it
PROJECT_URLS ==
  [p \in ALLOWED_PROJECTS |->
     IF p = "project-a" THEN [scheme |-> "http", netloc |-> "localhost:8001", path |-> ""]
     ELSE IF p = "project-b" THEN [scheme |-> "http", netloc |-> "localhost:8002", path |-> ""]
     ELSE [scheme |-> "http", netloc |-> "localhost:8003", path |-> ""]]

\* rows of the projects table, identified by their unique code (a project
\* may be allowed in the settings and have no row, as project-c)
DBProjects == {"project-a", "project-b"}

\* urlparse(uri).netloc
netloc(uri) == uri.netloc

\* project_crud.get_by_code: the project id, or NULL
project_get_by_code(code) == IF code \in DBProjects THEN code ELSE NULL

\* roles and the permission codes role_permissions gives them
Roles == {"viewer", "editor"}

get_role_permissions(r) ==
  IF r = "viewer" THEN {"reports.view"} ELSE {"reports.view", "data.edit"}

\* ------------------------------------------------------------- variables
VARIABLES
  now,          \* the clock (utc_now / datetime.utcnow)
  sessions,     \* user_sessions rows, in insertion order
  auth_codes,   \* auth_codes rows, in insertion order
  user_roles,   \* user_roles rows, in insertion order
  cache,        \* redis: permission cache, key -> entry or NULL
  tokens,       \* access tokens minted so far
  api_keys,     \* api_keys rows, in insertion order
  xch,          \* in-flight exchange_auth_code calls
  rd,           \* in-flight get_user_permissions calls
  mut,          \* in-flight role-assignment mutation
  resp          \* response of the last completed handler

vars == <<now, sessions, auth_codes, user_roles, cache, tokens, api_keys, xch, rd, mut, resp>>

\* concurrent exchange_auth_code requests
ExchThreads == {"x1", "x2"}

CacheScopes == DBProjects \cup {"global"}
CacheKeys == Users \X CacheScopes

\* a URL that is absent
NoUri == [scheme |-> "", netloc |-> "", path |-> ""]

\* no Authorization header
NoBearer == [sub |-> NULL, session |-> NoRow, project |-> NULL, type |-> "none",
             exp |-> 0, code |-> NoRow, by |-> "none"]

\* the credentials of a request: the auth_session cookie, the X-API-Key
\* header or api_key query parameter, the X-Service-Key and X-Project-ID
\* headers, the bearer token of the Authorization header
Request(cookie, api_key, service_key, project_id, bearer) ==
  [cookie |-> cookie, api_key |-> api_key, service_key |-> service_key,
   project_id |-> project_id, bearer |-> bearer]

\* a request with no credential
NoRequest == Request(NoRow, NULL, NULL, NULL, NoBearer)

\* a response that is no redirect
NoLocation == [to |-> NoUri, redirect_uri |-> NoUri, project |-> NULL, state |-> NULL,
               code |-> 0]

NoResp == [op |-> "none", status |-> 0, user |-> NULL, detail |-> "", row |-> 0,
           location |-> NoLocation, request |-> NoRequest]
Resp(op, status, user, detail, row) ==
  [op |-> op, status |-> status, user |-> user, detail |-> detail, row |-> row,
   location |-> NoLocation, request |-> NoRequest]

\* RedirectResponse(url): the URL's target and its query parameters
RedirectResponse(op, user, detail, row, location) ==
  [op |-> op, status |-> 307, user |-> user, detail |-> detail, row |-> row,
   location |-> location, request |-> NoRequest]

\* a call that is not running
IdleX == [pc |-> "idle", code |-> 0]
IdleR == [pc |-> "idle", user |-> NULL, project |-> NULL, perms |-> {}, at |-> 0]
IdleM == [pc |-> "idle", op |-> "none", user |-> NULL, role |-> NULL, project |-> NULL,
          row |-> 0, deleted |-> FALSE]

\* ------------------------------------------------------------ the clock
Tick ==
  /\ now < MaxTime
  /\ now' = now + TickStep
  /\ UNCHANGED <<sessions, auth_codes, user_roles, cache, tokens, xch, rd, mut, resp, api_keys>>

\* the clock, in steps of the lifetime of an access token
TickHalfHour ==
  /\ now < MaxHalfHours * minutes(JWT_ACCESS_TOKEN_EXPIRE_MINUTES)
  /\ now' = now + minutes(JWT_ACCESS_TOKEN_EXPIRE_MINUTES)
  /\ UNCHANGED <<sessions, auth_codes, user_roles, cache, tokens, xch, rd, mut, resp, api_keys>>

\* ------------------------------------------------------------- sessions
\* session_crud.get_by_token: index of the active row with this token
get_by_token(tok) ==
  IF tok \in 1..Len(sessions) /\ sessions[tok].is_active THEN tok ELSE NoRow

\* session_crud.get_by_refresh_token
get_by_refresh_token(tok) ==
  IF tok \in 1..Len(sessions) /\ sessions[tok].is_active THEN tok ELSE NoRow

\* session_crud.deactivate
deactivate(ss, id) == [ss EXCEPT ![id].is_active = FALSE]

\* session_crud.create_session
create_session(ss, u, expires_at) ==
  Append(ss, [user |-> u, expires_at |-> expires_at, is_active |-> TRUE,
              last_accessed_at |-> now])

\* SecurityUtils.create_jwt_token: the claims of the signed token (sub,
\* session, project, type, exp); code and by note the authorization code and
\* the call it was minted for
create_jwt_token(sub, session, project, type, code, by) ==
  [sub |-> sub, session |-> session, project |-> project, type |-> type,
   exp |-> now + minutes(JWT_ACCESS_TOKEN_EXPIRE_MINUTES), code |-> code, by |-> by]

\* LoginRequest: the username, and whether the password is the one whose
\* hash the named user's row holds (verify_password)
LoginRequest(username, password_ok) == [username |-> username, password_ok |-> password_ok]

\* the answer of login to a LoginRequest
LoginResp(status, user, detail, row, login_data) ==
  [Resp("login", status, user, detail, row) EXCEPT !.request = login_data]

\* login that looks at the account state before the password
login_checking_account_first(username, password_ok) ==
  /\ LET user == user_get(username)
         login_data == LoginRequest(username, password_ok)
     IN
     IF user # NULL /\ ~users[user].is_active
     THEN /\ resp' = LoginResp(401, NULL, "Account is disabled", NoRow, login_data)
          /\ UNCHANGED <<sessions, tokens>>
     ELSE IF user = NULL \/ ~password_ok
     THEN /\ resp' = LoginResp(401, NULL, "Incorrect email or password", NoRow, login_data)
          /\ UNCHANGED <<sessions, tokens>>
     ELSE /\ Len(sessions) < MaxSessions
          /\ Cardinality(tokens) < MaxTokens
          /\ sessions' = create_session(sessions, user, now + hours(SESSION_EXPIRE_HOURS))
          /\ tokens' = tokens \cup
                 {create_jwt_token(user, Len(sessions) + 1, NULL, "access", NoRow, "auth")}
          /\ resp' = LoginResp(200, user, "", Len(sessions) + 1, login_data)
  /\ UNCHANGED <<now, auth_codes, user_roles, cache, xch, rd, mut, api_keys>>

\* AuthService.login
login(username, password_ok) ==
  /\ LET user == user_get(username)
         login_data == LoginRequest(username, password_ok)
     IN
     IF user = NULL \/ ~password_ok
     THEN /\ resp' = LoginResp(401, NULL, "Incorrect email or password", NoRow, login_data)
          /\ UNCHANGED <<sessions, tokens>>
     ELSE IF ~users[user].is_active
     THEN /\ resp' = LoginResp(401, NULL, "Account is disabled", NoRow, login_data)
          /\ UNCHANGED <<sessions, tokens>>
     ELSE /\ Len(sessions) < MaxSessions
          /\ Cardinality(tokens) < MaxTokens
          /\ sessions' = create_session(sessions, user, now + hours(SESSION_EXPIRE_HOURS))
          /\ tokens' = tokens \cup
                 {create_jwt_token(user, Len(sessions) + 1, NULL, "access", NoRow, "auth")}
          /\ resp' = LoginResp(200, user, "", Len(sessions) + 1, login_data)
  /\ UNCHANGED <<now, auth_codes, user_roles, cache, xch, rd, mut, api_keys>>

\* logout that refuses a token it cannot revoke
logout_strict(cookie) ==
  /\ IF cookie # NoRow /\ get_by_token(cookie) # NoRow
     THEN /\ sessions' = deactivate(sessions, get_by_token(cookie))
          /\ resp' = Resp("logout", 200, NULL, "True", cookie)
     ELSE /\ UNCHANGED sessions
          /\ resp' = Resp("logout", 404, NULL, "False", cookie)
  /\ UNCHANGED <<now, auth_codes, user_roles, cache, tokens, xch, rd, mut, api_keys>>

\* AuthService.logout, reached through sso_logout; detail is the boolean the
\* service returns (a session was found), which the endpoint does not use
logout(cookie) ==
  /\ IF cookie # NoRow /\ get_by_token(cookie) # NoRow
     THEN /\ sessions' = deactivate(sessions, get_by_token(cookie))
          /\ resp' = Resp("logout", 200, NULL, "True", cookie)
     ELSE /\ UNCHANGED sessions
          /\ resp' = Resp("logout", 200, NULL, "False", cookie)
  /\ UNCHANGED <<now, auth_codes, user_roles, cache, tokens, xch, rd, mut, api_keys>>

\* session_crud.update_last_accessed
update_last_accessed(ss, id) == [ss EXCEPT ![id].last_accessed_at = now]

\* refresh_token that rotates: the renewed session is retired
refresh_token_rotating(tok) ==
  /\ LET session == get_by_refresh_token(tok) IN
     IF session = NoRow \/ ~sessions[session].is_active
     THEN /\ resp' = Resp("refresh_token", 401, NULL, "Invalid refresh token", NoRow)
          /\ UNCHANGED <<sessions, tokens>>
     ELSE IF sessions[session].expires_at < now
     THEN /\ sessions' = deactivate(sessions, session)
          /\ resp' = Resp("refresh_token", 401, NULL, "Refresh token expired", session)
          /\ UNCHANGED tokens
     ELSE LET user == user_get(sessions[session].user) IN
          IF user = NULL \/ ~users[user].is_active
          THEN /\ resp' = Resp("refresh_token", 401, NULL, "User account is disabled", session)
               /\ UNCHANGED <<sessions, tokens>>
          ELSE /\ tokens' = tokens \cup
                      {create_jwt_token(user, session, NULL, "access", NoRow, "auth")}
               /\ Cardinality(tokens') <= MaxTokens
               /\ resp' = Resp("refresh_token", 200, user, "", session)
               /\ sessions' = deactivate(sessions, session)
  /\ UNCHANGED <<now, auth_codes, user_roles, cache, xch, rd, mut, api_keys>>

\* refresh_token without the check of expires_at
refresh_token_ignoring_expiry(tok) ==
  /\ LET session == get_by_refresh_token(tok) IN
     IF session = NoRow \/ ~sessions[session].is_active
     THEN /\ resp' = Resp("refresh_token", 401, NULL, "Invalid refresh token", NoRow)
          /\ UNCHANGED <<sessions, tokens>>
     ELSE LET user == user_get(sessions[session].user) IN
          IF user = NULL \/ ~users[user].is_active
          THEN /\ resp' = Resp("refresh_token", 401, NULL, "User account is disabled", session)
               /\ UNCHANGED <<sessions, tokens>>
          ELSE /\ tokens' = tokens \cup
                      {create_jwt_token(user, session, NULL, "access", NoRow, "auth")}
               /\ Cardinality(tokens') <= MaxTokens
               /\ resp' = Resp("refresh_token", 200, user, "", session)
               /\ UNCHANGED sessions
  /\ UNCHANGED <<now, auth_codes, user_roles, cache, xch, rd, mut, api_keys>>

\* AuthService.refresh_token
refresh_token(tok) ==
  /\ LET session == get_by_refresh_token(tok) IN
     IF session = NoRow \/ ~sessions[session].is_active
     THEN /\ resp' = Resp("refresh_token", 401, NULL, "Invalid refresh token", NoRow)
          /\ UNCHANGED <<sessions, tokens>>
     ELSE IF sessions[session].expires_at < now
     THEN /\ sessions' = deactivate(sessions, session)
          /\ resp' = Resp("refresh_token", 401, NULL, "Refresh token expired", session)
          /\ UNCHANGED tokens
     ELSE LET user == user_get(sessions[session].user) IN
          IF user = NULL \/ ~users[user].is_active
          THEN /\ resp' = Resp("refresh_token", 401, NULL, "User account is disabled", session)
               /\ UNCHANGED <<sessions, tokens>>
          ELSE /\ tokens' = tokens \cup
                      {create_jwt_token(user, session, NULL, "access", NoRow, "auth")}
               /\ Cardinality(tokens') <= MaxTokens
               /\ resp' = Resp("refresh_token", 200, user, "", session)
               /\ UNCHANGED sessions
  /\ UNCHANGED <<now, auth_codes, user_roles, cache, xch, rd, mut, api_keys>>

\* get_user_by_session without the check of the user's is_active
get_user_by_session_any_user(tok) ==
  LET session == get_by_token(tok) IN
  IF session = NoRow \/ ~sessions[session].is_active THEN NULL
  ELSE IF sessions[session].expires_at < now THEN NULL
  ELSE user_get(sessions[session].user)

\* AuthService.get_user_by_session: the user it returns, or NULL
get_user_by_session(tok) ==
  LET session == get_by_token(tok) IN
  IF session = NoRow \/ ~sessions[session].is_active THEN NULL
  ELSE IF sessions[session].expires_at < now THEN NULL
  ELSE LET user == user_get(sessions[session].user) IN
       IF user = NULL \/ ~users[user].is_active THEN NULL ELSE user

\* AuthService.get_user_by_session: the sessions table it leaves
get_user_by_session_effect(tok) ==
  LET session == get_by_token(tok) IN
  IF session # NoRow /\ sessions[session].is_active /\ sessions[session].expires_at < now
  THEN deactivate(sessions, session)
  ELSE sessions

\* session_authenticate looking the row up by token alone
session_authenticate_any_row(tok) ==
  IF tok \notin 1..Len(sessions) THEN NULL
  ELSE IF sessions[tok].expires_at < now THEN NULL
  ELSE user_get(sessions[tok].user)

\* SessionAuthenticator.authenticate: the user it returns, or NULL
session_authenticate(tok) ==
  IF tok = NoRow THEN NULL
  ELSE LET session == get_by_token(tok) IN
       IF session = NoRow \/ ~sessions[session].is_active THEN NULL
       ELSE IF sessions[session].expires_at < now THEN NULL
       ELSE user_get(sessions[session].user)

\* session_authenticate_effect that leaves an expired session active
session_authenticate_effect_no_cleanup(tok) ==
  IF tok = NoRow THEN sessions
  ELSE LET session == get_by_token(tok) IN
       IF session = NoRow \/ ~sessions[session].is_active THEN sessions
       ELSE IF sessions[session].expires_at < now THEN sessions
       ELSE update_last_accessed(sessions, session)

\* SessionAuthenticator.authenticate: the sessions table it leaves
session_authenticate_effect(tok) ==
  IF tok = NoRow THEN sessions
  ELSE LET session == get_by_token(tok) IN
       IF session = NoRow \/ ~sessions[session].is_active THEN sessions
       ELSE IF sessions[session].expires_at < now THEN deactivate(sessions, session)
       ELSE update_last_accessed(sessions, session)

\* verify_jwt_token without the check of exp
verify_jwt_token_ignoring_exp(tk) == tk \in tokens

\* SecurityUtils.verify_jwt_token: the signature is the server's and exp has
\* not passed
verify_jwt_token(tk) == tk \in tokens /\ tk.exp >= now

\* jwt_authenticate that takes the access tokens of login only
jwt_authenticate_login_tokens_only(tk) ==
  IF ~verify_jwt_token(tk) THEN NULL
  ELSE IF tk.sub = NULL \/ tk.type # "access" THEN NULL
  ELSE user_get(tk.sub)

\* JWTAuthenticator.authenticate: the user it returns, or NULL
jwt_authenticate(tk) ==
  IF ~verify_jwt_token(tk) THEN NULL
  ELSE IF tk.sub = NULL THEN NULL
  ELSE user_get(tk.sub)

\* ------------------------------------------------- API keys, service keys
\* hashlib.sha256(key.encode()).hexdigest(): the digest of a key (distinct
\* keys have distinct digests, and no digest is its own preimage)
sha256(key) == "sha256:" \o key

\* APIKey.expires_at / last_used_at, AuthCode.used_at that is None
Never == -1

\* rows of the service_keys table (no modelled operation changes them)
service_keys ==
  << [project |-> "project-a", key_hash |-> sha256("sk_project_a"), is_active |-> TRUE],
     [project |-> "project-b", key_hash |-> sha256("sk_retired"), is_active |-> FALSE] >>

\* api_key_crud.get_by_hash: index of the active row with this hash
api_key_get_by_hash(key_hash) ==
  IF \E k \in 1..Len(api_keys) : api_keys[k].key_hash = key_hash /\ api_keys[k].is_active
  THEN CHOOSE k \in 1..Len(api_keys) :
         api_keys[k].key_hash = key_hash /\ api_keys[k].is_active
  ELSE NoRow

\* service_key_crud.get_by_hash: index of the active row with this hash
service_key_get_by_hash(key_hash) ==
  IF \E k \in 1..Len(service_keys) :
       service_keys[k].key_hash = key_hash /\ service_keys[k].is_active
  THEN CHOOSE k \in 1..Len(service_keys) :
         service_keys[k].key_hash = key_hash /\ service_keys[k].is_active
  ELSE NoRow

\* SecurityUtils.verify_api_key: compare_digest of the key's digest and the
\* stored one
verify_api_key(key, key_hash) == sha256(key) = key_hash

\* api_key_crud.update_last_used
update_last_used(ks, id) == [ks EXCEPT ![id].last_used_at = now]

\* api_key_authenticate without the check of expires_at
api_key_authenticate_ignoring_expiry(api_key) ==
  IF api_key = NULL THEN NoRow
  ELSE LET api_key_obj == api_key_get_by_hash(sha256(api_key)) IN
       IF api_key_obj = NoRow \/ ~api_keys[api_key_obj].is_active THEN NoRow
       ELSE IF ~verify_api_key(api_key, api_keys[api_key_obj].key_hash) THEN NoRow
       ELSE api_key_obj

\* APIKeyAuthenticator.authenticate: the api_keys row of the (user, key)
\* pair it returns, or NoRow when it returns None
\* (expires_at, a timezone-aware column, and datetime.utcnow() are compared
\* as instants on the model's clock)
api_key_authenticate(api_key) ==
  IF api_key = NULL THEN NoRow
  ELSE LET api_key_obj == api_key_get_by_hash(sha256(api_key)) IN
       IF api_key_obj = NoRow \/ ~api_keys[api_key_obj].is_active THEN NoRow
       ELSE IF /\ api_keys[api_key_obj].expires_at # Never
               /\ api_keys[api_key_obj].expires_at < now THEN NoRow
       ELSE IF ~verify_api_key(api_key, api_keys[api_key_obj].key_hash) THEN NoRow
       ELSE api_key_obj

\* api_key_authenticate_effect that marks the key as used as soon as its row
\* is found
api_key_authenticate_effect_on_lookup(api_key) ==
  LET api_key_obj == IF api_key = NULL THEN NoRow ELSE api_key_get_by_hash(sha256(api_key)) IN
  IF api_key_obj = NoRow THEN api_keys ELSE update_last_used(api_keys, api_key_obj)

\* APIKeyAuthenticator.authenticate: the api_keys table it leaves
api_key_authenticate_effect(api_key) ==
  LET api_key_obj == api_key_authenticate(api_key) IN
  IF api_key_obj = NoRow THEN api_keys ELSE update_last_used(api_keys, api_key_obj)

\* service_key_authenticate that accepts a row whatever its is_active
service_key_authenticate_any_row(service_key, project_id) ==
  IF service_key = NULL THEN NoRow
  ELSE IF \E k \in 1..Len(service_keys) : service_keys[k].key_hash = sha256(service_key)
  THEN CHOOSE k \in 1..Len(service_keys) : service_keys[k].key_hash = sha256(service_key)
  ELSE NoRow

\* ServiceKeyAuthenticator.authenticate: the service_keys row it returns, or
\* NoRow; project_id is not looked at
service_key_authenticate(service_key, project_id) ==
  IF service_key = NULL THEN NoRow
  ELSE LET service_key_obj == service_key_get_by_hash(sha256(service_key)) IN
       IF service_key_obj = NoRow \/ ~service_keys[service_key_obj].is_active THEN NoRow
       ELSE IF ~verify_api_key(service_key, service_keys[service_key_obj].key_hash)
       THEN NoRow
       ELSE service_key_obj

\* get_current_user on the (user, auth_info) pair of authenticate_request:
\* 401 when there is no user
get_current_user(user) == IF user = NULL THEN 401 ELSE 200

\* the (user, auth_info) pair authenticate_request returns for a request:
\* detail is auth_info's auth_type ("none" when auth_info is None), status
\* is the answer of an endpoint that depends on get_current_user
AuthResult(user, auth_type, request) ==
  [op |-> "authenticate_request", status |-> get_current_user(user), user |-> user,
   detail |-> auth_type, row |-> request.cookie, location |-> NoLocation,
   request |-> request]

\* authenticate_request trying the API key before the session cookie
authenticate_request_api_key_first(cookie, api_key, service_key, project_id, bearer) ==
  /\ LET request == Request(cookie, api_key, service_key, project_id, bearer)
         result == IF api_key # NULL THEN api_key_authenticate(api_key) ELSE NoRow
         user == IF cookie # NoRow THEN session_authenticate(cookie) ELSE NULL
         service_key_obj == IF service_key # NULL /\ project_id # NULL
                            THEN service_key_authenticate(service_key, project_id)
                            ELSE NoRow
         jwt_user == IF bearer # NoBearer THEN jwt_authenticate(bearer) ELSE NULL
     IN
     /\ api_keys' = IF api_key # NULL THEN api_key_authenticate_effect(api_key) ELSE api_keys
     /\ sessions' = IF result = NoRow /\ cookie # NoRow
                    THEN session_authenticate_effect(cookie)
                    ELSE sessions
     /\ resp' = IF result # NoRow
                THEN AuthResult(user_get(api_keys[result].user), "api_key", request)
                ELSE IF user # NULL THEN AuthResult(user, "session", request)
                ELSE IF service_key_obj # NoRow THEN AuthResult(NULL, "service_key", request)
                ELSE IF jwt_user # NULL THEN AuthResult(jwt_user, "jwt", request)
                ELSE AuthResult(NULL, "none", request)
  /\ UNCHANGED <<now, auth_codes, user_roles, cache, tokens, xch, rd, mut>>

\* authenticate_request: session cookie, then API key, then service key,
\* then bearer token; a strategy runs when its credential is present and no
\* earlier strategy has returned
authenticate_request(cookie, api_key, service_key, project_id, bearer) ==
  /\ LET request == Request(cookie, api_key, service_key, project_id, bearer)
         user == IF cookie # NoRow THEN session_authenticate(cookie) ELSE NULL
         result == IF api_key # NULL THEN api_key_authenticate(api_key) ELSE NoRow
         service_key_obj == IF service_key # NULL /\ project_id # NULL
                            THEN service_key_authenticate(service_key, project_id)
                            ELSE NoRow
         jwt_user == IF bearer # NoBearer THEN jwt_authenticate(bearer) ELSE NULL
     IN
     /\ sessions' = IF cookie # NoRow THEN session_authenticate_effect(cookie) ELSE sessions
     /\ api_keys' = IF user = NULL /\ api_key # NULL
                    THEN api_key_authenticate_effect(api_key)
                    ELSE api_keys
     /\ resp' = IF user # NULL THEN AuthResult(user, "session", request)
                ELSE IF result # NoRow
                THEN AuthResult(user_get(api_keys[result].user), "api_key", request)
                ELSE IF service_key_obj # NoRow THEN AuthResult(NULL, "service_key", request)
                ELSE IF jwt_user # NULL THEN AuthResult(jwt_user, "jwt", request)
                ELSE AuthResult(NULL, "none", request)
  /\ UNCHANGED <<now, auth_codes, user_roles, cache, tokens, xch, rd, mut>>

\* ------------------------------------------------------ permission cache
\* a key that is not in redis
NoEntry == [perms |-> {}, expires |-> -1]

\* f"user_permissions:{user_id}:{project_id or 'global'}"
cache_key(user, project_id) == <<user, IF project_id = NULL THEN "global" ELSE project_id>>

\* cache_manager.get: the value, or NoEntry when the key is absent or its TTL
\* has run out
cache_get(c, key) ==
  IF c[key] # NoEntry /\ now < c[key].expires THEN c[key] ELSE NoEntry

\* cache_manager.set
cache_set(c, key, perms, ttl) ==
  [c EXCEPT ![key] = [perms |-> perms, expires |-> now + ttl]]

\* cache_manager.delete
cache_delete(c, key) == [c EXCEPT ![key] = NoEntry]

\* ------------------------------------------------------ role assignments
\* expires_at of a row that never expires (SQL NULL)
NoExpiry == -1

\* CRUDUserRole.get_user_roles with active_only: indexes of the rows
get_user_roles(urs, user, project_id) ==
  { i \in 1..Len(urs) :
      /\ urs[i].user = user
      /\ (project_id # NULL => urs[i].project = project_id)
      /\ urs[i].is_active }

\* check_user_project_access without the expires_at filter
check_user_project_access_ignoring_expiry(user, project_code) ==
  IF user_get(user) # NULL /\ users[user].is_superuser THEN TRUE
  ELSE LET project == project_get_by_code(project_code) IN
       IF project = NULL THEN FALSE
       ELSE Cardinality({ i \in get_user_roles(user_roles, user, project) :
                            user_roles[i].is_active }) > 0

\* RBACService.check_user_project_access
check_user_project_access(user, project_code) ==
  IF user_get(user) # NULL /\ users[user].is_superuser THEN TRUE
  ELSE LET project == project_get_by_code(project_code) IN
       IF project = NULL THEN FALSE
       ELSE LET active_roles ==
                  { i \in get_user_roles(user_roles, user, project) :
                      /\ user_roles[i].is_active
                      /\ (user_roles[i].expires_at = NoExpiry
                          \/ user_roles[i].expires_at > now) }
            IN Cardinality(active_roles) > 0

\* ------------------------------------------------------------------ SSO
\* sso_login_redirect: the status it answers with
sso_login_redirect_status(project, redirect_uri) ==
  IF project \notin ALLOWED_PROJECTS THEN 400
  ELSE IF project \notin DOMAIN PROJECT_URLS THEN 400
  ELSE IF netloc(redirect_uri) # netloc(PROJECT_URLS[project]) THEN 400
  ELSE 302

\* sso_login_redirect
sso_login_redirect(project, redirect_uri) ==
  /\ resp' = Resp("sso_login_redirect", sso_login_redirect_status(project, redirect_uri),
                  NULL, project, NoRow)
  /\ UNCHANGED <<now, sessions, auth_codes, user_roles, cache, tokens, xch, rd, mut, api_keys>>

\* auth_code_crud.create_auth_code, called by AuthService.generate_auth_code
generate_auth_code(acs, user, project, redirect_uri) ==
  Append(acs, [user |-> user, project |-> project, redirect_uri |-> redirect_uri,
               expires_at |-> now + minutes(AUTH_CODE_MINUTES), is_used |-> FALSE,
               used_at |-> Never, created_at |-> now])

\* sso_callback: the login page URL, carrying the parameters of the request
\* (state only when the request has one)
login_url(project, redirect_uri, state) ==
  [to |-> [scheme |-> "", netloc |-> "", path |-> "/api/v1/sso/login-page"],
   redirect_uri |-> redirect_uri, project |-> project, state |-> state, code |-> NoRow]

\* sso_callback: the redirect_uri with code, project and state merged into
\* its query
final_redirect_uri(code, project, redirect_uri, state) ==
  [to |-> redirect_uri, redirect_uri |-> NoUri, project |-> project, state |-> state,
   code |-> code]

\* sso_callback
sso_callback(cookie, project, redirect_uri, state) ==
  /\ IF cookie = NoRow
     THEN /\ resp' = RedirectResponse("sso_callback", NULL, "login-page", NoRow,
                                      login_url(project, redirect_uri, state))
          /\ UNCHANGED <<sessions, auth_codes>>
     ELSE LET user == get_user_by_session(cookie) IN
          /\ sessions' = get_user_by_session_effect(cookie)
          /\ IF user = NULL
             THEN /\ resp' = RedirectResponse("sso_callback", NULL, "login-page", cookie,
                                              login_url(project, redirect_uri, state))
                  /\ UNCHANGED auth_codes
             ELSE IF ~check_user_project_access(user, project)
             THEN /\ resp' = Resp("sso_callback", 403, user, "forbidden", NoRow)
                  /\ UNCHANGED auth_codes
             ELSE /\ Len(auth_codes) < MaxCodes
                  /\ auth_codes' = generate_auth_code(auth_codes, user, project, redirect_uri)
                  /\ resp' = RedirectResponse("sso_callback", user, "code",
                                              Len(auth_codes) + 1,
                                              final_redirect_uri(Len(auth_codes) + 1, project,
                                                                 redirect_uri, state))
  /\ UNCHANGED <<now, user_roles, cache, tokens, xch, rd, mut, api_keys>>

\* check_sso_session
check_sso_session(cookie, project) ==
  /\ IF cookie = NoRow
     THEN /\ resp' = Resp("check_sso_session", 401, NULL, "no session token", NoRow)
          /\ UNCHANGED sessions
     ELSE LET user == get_user_by_session(cookie) IN
          /\ sessions' = get_user_by_session_effect(cookie)
          /\ IF user = NULL
             THEN resp' = Resp("check_sso_session", 401, NULL, "session invalid", cookie)
             ELSE resp' = Resp("check_sso_session", 200, user,
                               IF check_user_project_access(user, project)
                               THEN "has_project_access" ELSE "no_project_access", cookie)
  /\ UNCHANGED <<now, auth_codes, user_roles, cache, tokens, xch, rd, mut, api_keys>>

\* RBACService.get_user_permissions, the part that reads the store, run when
\* datetime.utcnow() is t
compute_permissions_at(urs, user, project_id, t) ==
  UNION { get_role_permissions(urs[i].role) :
            i \in { j \in get_user_roles(urs, user, project_id) :
                      /\ urs[j].is_active
                      /\ ~(urs[j].expires_at # NoExpiry /\ urs[j].expires_at < t) } }

compute_permissions(urs, user, project_id) ==
  compute_permissions_at(urs, user, project_id, now)

\* RBACService.get_user_permissions run without interruption: what it returns
get_user_permissions(user, project_id) ==
  LET cached == cache_get(cache, cache_key(user, project_id)) IN
  IF cached.perms # {} THEN cached.perms
  ELSE compute_permissions(user_roles, user, project_id)

\* RBACService.get_user_permissions run without interruption: the cache it leaves
get_user_permissions_effect(user, project_id) ==
  LET cached == cache_get(cache, cache_key(user, project_id)) IN
  IF cached.perms # {} THEN cache
  ELSE cache_set(cache, cache_key(user, project_id),
                 compute_permissions(user_roles, user, project_id), CACHE_PERMISSION_TTL)

\* CRUDRole.get_user_roles, behind RBACService.get_user_roles: the roles
\* joined to the user's assignments (of the project, when one is given) that
\* are is_active
role_get_user_roles(user, project_id) ==
  { user_roles[i].role :
      i \in { j \in 1..Len(user_roles) :
                /\ user_roles[j].user = user
                /\ (project_id # NULL => user_roles[j].project = project_id)
                /\ user_roles[j].is_active } }

\* require_roles: the guard of an endpoint that asks for one of roles
require_roles(current_user, roles, project_id) ==
  /\ resp' = IF current_user = NULL
             THEN Resp("require_roles", 401, NULL, "", NoRow)
             ELSE IF users[current_user].is_superuser
             THEN Resp("require_roles", 200, current_user, "superuser", NoRow)
             ELSE IF roles \cap role_get_user_roles(current_user, project_id) # {}
             THEN Resp("require_roles", 200, current_user, "has_required_role", NoRow)
             ELSE Resp("require_roles", 403, current_user, "missing role", NoRow)
  /\ UNCHANGED <<now, sessions, auth_codes, user_roles, cache, tokens, xch, rd, mut, api_keys>>

\* RBACService.check_permission: membership in the resolved set
check_permission(user, permission_code, project_id) ==
  /\ cache' = get_user_permissions_effect(user, project_id)
  /\ resp' = Resp("check_permission", 200, user,
                  IF permission_code \in get_user_permissions(user, project_id)
                  THEN "True" ELSE "False", NoRow)
  /\ UNCHANGED <<now, sessions, auth_codes, user_roles, tokens, xch, rd, mut, api_keys>>

\* require_permission without the superuser branch
require_permission_no_superuser(current_user, permission, project_id) ==
  /\ IF current_user = NULL
     THEN /\ resp' = Resp("require_permission", 401, NULL, permission, NoRow)
          /\ UNCHANGED cache
     ELSE /\ cache' = get_user_permissions_effect(current_user, project_id)
          /\ resp' = Resp("require_permission",
                          IF permission \in get_user_permissions(current_user, project_id)
                          THEN 200 ELSE 403,
                          current_user, permission, NoRow)
  /\ UNCHANGED <<now, sessions, auth_codes, user_roles, tokens, xch, rd, mut, api_keys>>

\* require_permission(permission, project_id), for a single permission code:
\* 200 stands for the call of the wrapped endpoint
require_permission(current_user, permission, project_id) ==
  /\ IF current_user = NULL
     THEN /\ resp' = Resp("require_permission", 401, NULL, permission, NoRow)
          /\ UNCHANGED cache
     ELSE IF users[current_user].is_superuser
     THEN /\ resp' = Resp("require_permission", 200, current_user, permission, NoRow)
          /\ UNCHANGED cache
     ELSE /\ cache' = get_user_permissions_effect(current_user, project_id)
          /\ resp' = Resp("require_permission",
                          IF permission \in get_user_permissions(current_user, project_id)
                          THEN 200 ELSE 403,
                          current_user, permission, NoRow)
  /\ UNCHANGED <<now, sessions, auth_codes, user_roles, tokens, xch, rd, mut, api_keys>>

\* get_user_permissions_lookup that takes any entry it finds, an empty list
\* included, as a hit
get_user_permissions_lookup_hit_on_empty(user, project_id) ==
  /\ rd.pc = "idle"
  /\ LET cached == cache_get(cache, cache_key(user, project_id)) IN
     IF cached # NoEntry
     THEN /\ rd' = [pc |-> "idle", user |-> user, project |-> project_id,
                    perms |-> cached.perms, at |-> now]
          /\ resp' = Resp("get_user_permissions", 200, user, "hit", NoRow)
     ELSE /\ rd' = [pc |-> "query", user |-> user, project |-> project_id,
                    perms |-> {}, at |-> now]
          /\ UNCHANGED resp
  /\ UNCHANGED <<now, sessions, auth_codes, user_roles, cache, tokens, xch, mut, api_keys>>

\* RBACService.get_user_permissions, first step: the cache lookup
get_user_permissions_lookup(user, project_id) ==
  /\ rd.pc = "idle"
  /\ LET cached == cache_get(cache, cache_key(user, project_id)) IN
     IF cached.perms # {}
     THEN /\ rd' = [pc |-> "idle", user |-> user, project |-> project_id,
                    perms |-> cached.perms, at |-> now]
          /\ resp' = Resp("get_user_permissions", 200, user, "hit", NoRow)
     ELSE /\ rd' = [pc |-> "query", user |-> user, project |-> project_id,
                    perms |-> {}, at |-> now]
          /\ UNCHANGED resp
  /\ UNCHANGED <<now, sessions, auth_codes, user_roles, cache, tokens, xch, mut, api_keys>>

\* RBACService.get_user_permissions, second step: the store is read
get_user_permissions_query ==
  /\ rd.pc = "query"
  /\ rd' = [rd EXCEPT !.pc = "set",
                      !.perms = compute_permissions(user_roles, rd.user, rd.project),
                      !.at = now]
  /\ UNCHANGED <<now, sessions, auth_codes, user_roles, cache, tokens, xch, mut, resp, api_keys>>

\* RBACService.get_user_permissions, last step: the result is cached and
\* returned
get_user_permissions_set ==
  /\ rd.pc = "set"
  /\ cache' = cache_set(cache, cache_key(rd.user, rd.project), rd.perms,
                        CACHE_PERMISSION_TTL)
  /\ rd' = [rd EXCEPT !.pc = "idle"]
  /\ resp' = Resp("get_user_permissions", 200, rd.user, "miss", NoRow)
  /\ UNCHANGED <<now, sessions, auth_codes, user_roles, tokens, xch, mut, api_keys>>

\* user_role_crud.revoke_user_role: the rows it deactivates
revoke_user_role_rows(urs, user, role, project_id) ==
  { i \in 1..Len(urs) :
      /\ urs[i].user = user
      /\ urs[i].role = role
      /\ urs[i].project = project_id
      /\ urs[i].is_active }

\* user_role_crud.revoke_user_role: the table it leaves
revoke_user_role(urs, user, role, project_id) ==
  [i \in 1..Len(urs) |->
     IF i \in revoke_user_role_rows(urs, user, role, project_id)
     THEN [urs[i] EXCEPT !.is_active = FALSE]
     ELSE urs[i]]

\* RBACService.revoke_role_from_user, first step: revoke_user_role commits
revoke_role_from_user_commit(user, role, project_id) ==
  /\ mut.pc = "idle"
  /\ LET rows == revoke_user_role_rows(user_roles, user, role, project_id) IN
     IF rows # {}
     THEN /\ user_roles' = revoke_user_role(user_roles, user, role, project_id)
          /\ mut' = [pc |-> "invalidate", op |-> "revoke", user |-> user, role |-> role,
                     project |-> project_id, row |-> CHOOSE i \in rows : TRUE,
                     deleted |-> FALSE]
          /\ UNCHANGED resp
     ELSE /\ mut' = [pc |-> "idle", op |-> "revoke", user |-> user, role |-> role,
                     project |-> project_id, row |-> NoRow, deleted |-> FALSE]
          /\ resp' = Resp("revoke_role_from_user", 200, user, role, NoRow)
          /\ UNCHANGED user_roles
  /\ UNCHANGED <<now, sessions, auth_codes, cache, tokens, xch, rd, api_keys>>

\* revoke_role_from_user_invalidate that leaves the cache key in place
revoke_role_from_user_no_invalidate ==
  /\ mut.pc = "invalidate"
  /\ mut' = [mut EXCEPT !.pc = "idle", !.deleted = FALSE]
  /\ resp' = Resp("revoke_role_from_user", 200, mut.user, mut.role, mut.row)
  /\ UNCHANGED <<now, sessions, auth_codes, user_roles, cache, tokens, xch, rd, api_keys>>

\* RBACService.revoke_role_from_user, last step: the cache key is deleted
revoke_role_from_user_invalidate ==
  /\ mut.pc = "invalidate"
  /\ cache' = cache_delete(cache, cache_key(mut.user, mut.project))
  /\ mut' = [mut EXCEPT !.pc = "idle",
                        !.deleted = (cache[cache_key(mut.user, mut.project)] # NoEntry)]
  /\ resp' = Resp("revoke_role_from_user", 200, mut.user, mut.role, mut.row)
  /\ UNCHANGED <<now, sessions, auth_codes, user_roles, tokens, xch, rd, api_keys>>

\* RBACService.assign_role_to_user: user_role_crud.create(db, user_role_data)
\* passes obj_in positionally to CRUDBase.create, whose obj_in is keyword-only,
\* so the call raises TypeError before anything is written
assign_role_to_user(user, role, project_id, expires_at) ==
  /\ mut.pc = "idle"
  /\ mut' = [pc |-> "idle", op |-> "assign", user |-> user, role |-> role,
             project |-> project_id, row |-> NoRow, deleted |-> FALSE]
  /\ resp' = Resp("assign_role_to_user", 500, user, role, NoRow)
  /\ UNCHANGED <<now, sessions, auth_codes, user_roles, cache, tokens, xch, rd, api_keys>>

\* ------------------------------------------------------- code exchange
\* auth_code_crud.get_by_code: index of the row, or NoRow
get_by_code(code) == IF code \in 1..Len(auth_codes) THEN code ELSE NoRow

\* auth_code_crud.mark_as_used
mark_as_used(acs, id) == [acs EXCEPT ![id].is_used = TRUE, ![id].used_at = now]

\* exchange_auth_code_verdict without the is_used test
exchange_auth_code_verdict_ignoring_used(code, project, redirect_uri) ==
  LET auth_code == get_by_code(code) IN
  IF auth_code = NoRow THEN "invalid"
  ELSE IF auth_codes[auth_code].expires_at < now THEN "expired"
  ELSE IF auth_codes[auth_code].project # project
          \/ auth_codes[auth_code].redirect_uri # redirect_uri THEN "mismatch"
  ELSE "ok"

\* exchange_auth_code_verdict without the check of expires_at
exchange_auth_code_verdict_ignoring_expiry(code, project, redirect_uri) ==
  LET auth_code == get_by_code(code) IN
  IF auth_code = NoRow \/ auth_codes[auth_code].is_used THEN "invalid"
  ELSE IF auth_codes[auth_code].project # project
          \/ auth_codes[auth_code].redirect_uri # redirect_uri THEN "mismatch"
  ELSE "ok"

\* exchange_auth_code_verdict comparing the project only
exchange_auth_code_verdict_project_only(code, project, redirect_uri) ==
  LET auth_code == get_by_code(code) IN
  IF auth_code = NoRow \/ auth_codes[auth_code].is_used THEN "invalid"
  ELSE IF auth_codes[auth_code].expires_at < now THEN "expired"
  ELSE IF auth_codes[auth_code].project # project THEN "mismatch"
  ELSE "ok"

\* AuthService.exchange_auth_code, the checks before mark_as_used: "ok", or
\* the reason of the HTTP 400
exchange_auth_code_verdict(code, project, redirect_uri) ==
  LET auth_code == get_by_code(code) IN
  IF auth_code = NoRow \/ auth_codes[auth_code].is_used THEN "invalid"
  ELSE IF auth_codes[auth_code].expires_at < now THEN "expired"
  ELSE IF auth_codes[auth_code].project # project
          \/ auth_codes[auth_code].redirect_uri # redirect_uri THEN "mismatch"
  ELSE "ok"

\* exchange_auth_code_check that spends the code when the parameters differ
exchange_auth_code_check_burning(t, code, project, redirect_uri) ==
  /\ xch[t].pc = "idle"
  /\ LET verdict == exchange_auth_code_verdict(code, project, redirect_uri) IN
     IF verdict # "ok"
     THEN /\ xch' = [xch EXCEPT ![t] = IdleX]
          /\ resp' = Resp("exchange_auth_code", 400, NULL, verdict, code)
          /\ auth_codes' = IF verdict = "mismatch" THEN mark_as_used(auth_codes, code)
                           ELSE auth_codes
     ELSE /\ xch' = [xch EXCEPT ![t] = [pc |-> "mark", code |-> code]]
          /\ UNCHANGED <<resp, auth_codes>>
  /\ UNCHANGED <<now, sessions, user_roles, cache, tokens, rd, mut, api_keys>>

\* AuthService.exchange_auth_code up to the await of mark_as_used
exchange_auth_code_check(t, code, project, redirect_uri) ==
  /\ xch[t].pc = "idle"
  /\ LET verdict == exchange_auth_code_verdict(code, project, redirect_uri) IN
     IF verdict # "ok"
     THEN /\ xch' = [xch EXCEPT ![t] = IdleX]
          /\ resp' = Resp("exchange_auth_code", 400, NULL, verdict, code)
     ELSE /\ xch' = [xch EXCEPT ![t] = [pc |-> "mark", code |-> code]]
          /\ UNCHANGED resp
  /\ UNCHANGED <<now, sessions, auth_codes, user_roles, cache, tokens, rd, mut, api_keys>>

\* AuthService.exchange_auth_code: the UPDATE of mark_as_used commits
exchange_auth_code_mark(t) ==
  /\ xch[t].pc = "mark"
  /\ auth_codes' = mark_as_used(auth_codes, xch[t].code)
  /\ xch' = [xch EXCEPT ![t].pc = "mint"]
  /\ UNCHANGED <<now, sessions, user_roles, cache, tokens, rd, mut, resp, api_keys>>

\* exchange_auth_code_mint that gives the code back when the user check fails
exchange_auth_code_mint_releasing(t) ==
  /\ xch[t].pc = "mint"
  /\ LET auth_code == auth_codes[xch[t].code]
         user == user_get(auth_code.user)
     IN IF user = NULL \/ ~users[user].is_active
        THEN /\ resp' = Resp("exchange_auth_code", 401, NULL, "disabled", xch[t].code)
             /\ auth_codes' = [auth_codes EXCEPT ![xch[t].code].is_used = FALSE]
             /\ UNCHANGED <<tokens, cache>>
        ELSE /\ tokens' = tokens \cup
                    {create_jwt_token(user, NoRow, auth_code.project, "sso_access", xch[t].code, t)}
             /\ cache' = get_user_permissions_effect(user,
                                                     project_get_by_code(auth_code.project))
             /\ resp' = Resp("exchange_auth_code", 200, user, "token", xch[t].code)
             /\ UNCHANGED auth_codes
  /\ xch' = [xch EXCEPT ![t] = IdleX]
  /\ UNCHANGED <<now, sessions, user_roles, rd, mut, api_keys>>

\* AuthService.exchange_auth_code after mark_as_used: the user check, the
\* token and the permission snapshot
exchange_auth_code_mint(t) ==
  /\ xch[t].pc = "mint"
  /\ LET auth_code == auth_codes[xch[t].code]
         user == user_get(auth_code.user)
     IN IF user = NULL \/ ~users[user].is_active
        THEN /\ resp' = Resp("exchange_auth_code", 401, NULL, "disabled", xch[t].code)
             /\ UNCHANGED <<tokens, cache>>
        ELSE /\ tokens' = tokens \cup
                    {create_jwt_token(user, NoRow, auth_code.project, "sso_access", xch[t].code, t)}
             /\ cache' = get_user_permissions_effect(user,
                                                     project_get_by_code(auth_code.project))
             /\ resp' = Resp("exchange_auth_code", 200, user, "token", xch[t].code)
  /\ xch' = [xch EXCEPT ![t] = IdleX]
  /\ UNCHANGED <<now, sessions, auth_codes, user_roles, rd, mut, api_keys>>

\* get_user_by_access_token that also asks for an active session of the user
get_user_by_access_token_needing_session(tk, project) ==
  IF ~verify_jwt_token(tk) THEN NULL
  ELSE IF tk.sub = NULL \/ tk.project # project \/ tk.type # "sso_access" THEN NULL
  ELSE LET user == user_get(tk.sub) IN
       IF user = NULL \/ ~users[user].is_active THEN NULL
       ELSE IF \E k \in 1..Len(sessions) : sessions[k].user = user /\ sessions[k].is_active
       THEN user ELSE NULL

\* get_user_by_access_token without the comparison of the project claim
get_user_by_access_token_any_project(tk, project) ==
  IF ~verify_jwt_token(tk) THEN NULL
  ELSE IF tk.sub = NULL \/ tk.type # "sso_access" THEN NULL
  ELSE LET user == user_get(tk.sub) IN
       IF user = NULL \/ ~users[user].is_active THEN NULL ELSE user

\* AuthService.get_user_by_access_token: the user it answers for, or NULL
\* when it raises 401
get_user_by_access_token(tk, project) ==
  IF ~verify_jwt_token(tk) THEN NULL
  ELSE IF tk.sub = NULL \/ tk.project # project \/ tk.type # "sso_access" THEN NULL
  ELSE LET user == user_get(tk.sub) IN
       IF user = NULL \/ ~users[user].is_active THEN NULL ELSE user

\* RBACService.get_user_project_permissions: the cache it leaves
get_user_project_permissions_effect(user, project_code) ==
  LET project == project_get_by_code(project_code) IN
  IF project = NULL THEN cache ELSE get_user_permissions_effect(user, project)

\* get_sso_user_info (GET /user-info): row notes the authorization code the
\* presented token was minted for, detail the project asked for
get_sso_user_info(bearer, project) ==
  /\ IF bearer = NoBearer
     THEN /\ resp' = Resp("get_sso_user_info", 401, NULL, project, NoRow)
          /\ UNCHANGED cache
     ELSE LET user == get_user_by_access_token(bearer, project) IN
          IF user = NULL
          THEN /\ resp' = Resp("get_sso_user_info", 401, NULL, project, bearer.code)
               /\ UNCHANGED cache
          ELSE /\ resp' = Resp("get_sso_user_info", 200, user, project, bearer.code)
               /\ cache' = get_user_project_permissions_effect(user, project)
  /\ UNCHANGED <<now, sessions, auth_codes, user_roles, tokens, xch, rd, mut, api_keys>>

\* ------------------------------------------------------------ behaviours
\* sessions that exist when the model starts (created before time 0)
InitSessions ==
  { << >>,
    << [user |-> "alice", expires_at |-> TickStep, is_active |-> TRUE,
        last_accessed_at |-> 0] >> }

\* cookie values a request may carry: none, the token of a row, or a token
\* that no row has
Cookies == 0..(Len(sessions) + 1)

\* sessions, login and the authenticator chain
Init ==
  /\ now = 0
  /\ sessions \in InitSessions
  /\ auth_codes = << >>
  /\ user_roles = << >>
  /\ cache = [k \in CacheKeys |-> NoEntry]
  /\ tokens = {}
  /\ xch = [t \in ExchThreads |-> IdleX]
  /\ rd = IdleR
  /\ mut = IdleM
  /\ api_keys = << >>
  /\ resp = NoResp

Next ==
  \/ Tick
  \/ \E u \in Usernames, ok \in BOOLEAN : login(u, ok)
  \/ \E c \in Cookies : logout(c)
  \/ \E c \in Cookies : refresh_token(c)
  \/ \E c \in Cookies, b \in tokens \cup {NoBearer} :
       authenticate_request(c, NULL, NULL, NULL, b)
  \/ \E c \in Cookies : check_sso_session(c, "project-a")
  \/ \E c \in Cookies : sso_callback(c, "project-a", PROJECT_URLS["project-a"], NULL)

Spec == Init /\ [][Next]_vars

\* session k is active and its expires_at has passed
ExpiredActive(k) ==
  k \in 1..Len(sessions) /\ sessions[k].is_active /\ sessions[k].expires_at < now

\* C7: authenticate_request with the cookie of an active session whose
\* expires_at has passed does not authenticate through the session (a request
\* with no other credential gets no principal), and the session is inactive
\* afterwards.
C7_ExpiredSessionLazyCleanup ==
  [][\A k \in Cookies, b \in tokens \cup {NoBearer} :
       (ExpiredActive(k) /\ authenticate_request(k, NULL, NULL, NULL, b))
       => /\ ~sessions'[k].is_active
          /\ resp'.detail # "session"
          /\ (b = NoBearer => (resp'.status = 401 /\ resp'.user = NULL))]_vars

\* a cookie-only request was refused for a session that had expired and is
\* now inactive
C7_Witness ==
  /\ resp.op = "authenticate_request" /\ resp.status = 401
  /\ resp.row \in 1..Len(sessions)
  /\ ~sessions[resp.row].is_active
  /\ sessions[resp.row].expires_at < now

\* C8: an inactive session never becomes active again, and presenting its
\* session token or refresh token resolves no principal: not through the
\* session strategy of authenticate_request, nor refresh_token, nor the SSO
\* callback, nor check-session.
C8_InactiveSessionStaysDead ==
  [][\A k \in 1..Len(sessions) :
       ~sessions[k].is_active =>
         /\ ~sessions'[k].is_active
         /\ \A b \in tokens \cup {NoBearer} :
              authenticate_request(k, NULL, NULL, NULL, b) =>
                (resp'.detail # "session" /\ (b = NoBearer => resp'.user = NULL))
         /\ refresh_token(k) => (resp'.status = 401 /\ tokens' = tokens)
         /\ sso_callback(k, "project-a", PROJECT_URLS["project-a"], NULL) =>
              (resp'.user = NULL /\ auth_codes' = auth_codes)
         /\ check_sso_session(k, "project-a") =>
              (resp'.status = 401 /\ resp'.user = NULL)]_vars

\* a handler was called with the token of an inactive session whose
\* expires_at has not passed
C8_Witness ==
  /\ resp.op \in {"authenticate_request", "refresh_token", "sso_callback", "check_sso_session"}
  /\ resp.user = NULL
  /\ \E k \in 1..Len(sessions) :
       /\ ~sessions[k].is_active
       /\ sessions[k].expires_at >= now
       /\ resp.row = k

\* the SSO broker: callback and code exchange
\* project codes a request may name
SsoProjects == {"project-a", "ghost"}

\* redirect URIs a request may name, already split as urlparse splits them
SsoRedirectUris ==
  { [scheme |-> "http", netloc |-> "localhost:8001", path |-> "/cb"],
    [scheme |-> "http", netloc |-> "evil.example", path |-> "/cb"] }

\* state parameters a request may carry: none, or a value
SsoStates == {NULL, "xyz"}

InitSSO ==
  /\ now = 0
  /\ sessions = << [user |-> "alice", expires_at |-> 2 * TickStep, is_active |-> TRUE,
                    last_accessed_at |-> 0],
                   [user |-> "root", expires_at |-> hours(SESSION_EXPIRE_HOURS), is_active |-> TRUE,
                    last_accessed_at |-> 0],
                   [user |-> "bob", expires_at |-> hours(SESSION_EXPIRE_HOURS), is_active |-> TRUE,
                    last_accessed_at |-> 0] >>
  /\ auth_codes = << >>
  /\ user_roles \in
       { << [user |-> "alice", role |-> "viewer", project |-> "project-a",
             expires_at |-> TickStep, is_active |-> TRUE] >>,
         << [user |-> "alice", role |-> "viewer", project |-> NULL,
             expires_at |-> NoExpiry, is_active |-> TRUE] >> }
  /\ cache = [k \in CacheKeys |-> NoEntry]
  /\ tokens = {}
  /\ xch = [t \in ExchThreads |-> IdleX]
  /\ rd = IdleR
  /\ mut = IdleM
  /\ api_keys = << >>
  /\ resp = NoResp

\* the broker serving one exchange request at a time
NextSSO ==
  \/ Tick
  \/ \E p \in SsoProjects, r \in SsoRedirectUris : sso_login_redirect(p, r)
  \/ \E c \in Cookies, p \in SsoProjects, r \in SsoRedirectUris :
       sso_callback(c, p, r, NULL)
  \/ \E c \in 1..MaxCodes, p \in SsoProjects, r \in SsoRedirectUris :
       exchange_auth_code_check("x1", c, p, r)
  \/ exchange_auth_code_mark("x1")
  \/ exchange_auth_code_mint("x1")

SpecSSO == InitSSO /\ [][NextSSO]_vars

\* the broker's redirect and callback entrypoints alone, with every request
\* parameter
NextCallback ==
  \/ Tick
  \/ \E p \in SsoProjects, r \in SsoRedirectUris : sso_login_redirect(p, r)
  \/ \E c \in Cookies, p \in SsoProjects, r \in SsoRedirectUris, s \in SsoStates :
       sso_callback(c, p, r, s)

SpecCallback == InitSSO /\ [][NextCallback]_vars

\* concurrent exchange requests for a code the callback issued at time 0, to
\* alice or to bob, whose account was disabled after the code was issued
InitExchange ==
  /\ now = 0
  /\ sessions = << >>
  /\ \E u \in {"alice", "bob"} :
       auth_codes = generate_auth_code(<< >>, u, "project-a",
                      [scheme |-> "http", netloc |-> "localhost:8001", path |-> "/cb"])
  /\ user_roles = << [user |-> "alice", role |-> "viewer", project |-> "project-a",
                      expires_at |-> NoExpiry, is_active |-> TRUE] >>
  /\ cache = [k \in CacheKeys |-> NoEntry]
  /\ tokens = {}
  /\ xch = [t \in ExchThreads |-> IdleX]
  /\ rd = IdleR
  /\ mut = IdleM
  /\ api_keys = << >>
  /\ resp = NoResp

NextExchange ==
  \/ Tick
  \/ \E t \in ExchThreads, c \in 1..Len(auth_codes), p \in SsoProjects,
        r \in SsoRedirectUris :
       exchange_auth_code_check(t, c, p, r)
  \/ \E t \in ExchThreads : exchange_auth_code_mark(t)
  \/ \E t \in ExchThreads : exchange_auth_code_mint(t)

SpecExchange == InitExchange /\ [][NextExchange]_vars

\* access tokens returned by exchanges of authorization code c
TokensOf(c) == { tk \in tokens : tk.code = c }

\* C1: over any interleaving of concurrent exchange attempts with identical
\* parameters, at most one attempt returns an access token for a given code.
C1_AtMostOneExchange ==
  \A c \in 1..Len(auth_codes) : Cardinality(TokensOf(c)) <= 1

\* C2: once is_used is true it stays true, and an exchange call that starts
\* then fails at once (HTTP 400, nothing minted), whatever the parameters and
\* the remaining time.
C2_UsedCodeIsDead ==
  [][\A c \in 1..Len(auth_codes) :
       auth_codes[c].is_used =>
         /\ auth_codes'[c].is_used
         /\ \A t \in ExchThreads, p \in SsoProjects, r \in SsoRedirectUris :
              exchange_auth_code_check(t, c, p, r) =>
                /\ xch'[t].pc = "idle"
                /\ resp'.status = 400
                /\ tokens' = tokens]_vars

\* a call was refused for a used code that had not expired
C2_Witness ==
  /\ resp.op = "exchange_auth_code" /\ resp.status = 400 /\ resp.detail = "invalid"
  /\ resp.row \in 1..Len(auth_codes)
  /\ auth_codes[resp.row].is_used
  /\ auth_codes[resp.row].expires_at >= now

\* C3: an exchange that presents a project or a redirect_uri different from
\* the recorded one fails (HTTP 400) and mints nothing, even for a code that
\* exists, is unused and has not expired.
C3_MismatchRejected ==
  [][\A t \in ExchThreads, c \in 1..Len(auth_codes), p \in SsoProjects,
        r \in SsoRedirectUris :
       (/\ exchange_auth_code_check(t, c, p, r)
        /\ (auth_codes[c].project # p \/ auth_codes[c].redirect_uri # r))
       => /\ xch'[t].pc = "idle"
          /\ resp'.status = 400
          /\ tokens' = tokens
          /\ auth_codes' = auth_codes]_vars

\* a call was refused for its parameters only
C3_Witness ==
  /\ resp.op = "exchange_auth_code" /\ resp.status = 400 /\ resp.detail = "mismatch"
  /\ resp.row \in 1..Len(auth_codes)
  /\ ~auth_codes[resp.row].is_used
  /\ auth_codes[resp.row].expires_at >= now

\* C9: every authorization code is bound to a registered project and to a
\* redirect_uri whose host is the host of that project's configured URL.
C9_CodeBoundToRegisteredHost ==
  \A c \in 1..Len(auth_codes) :
    /\ auth_codes[c].project \in ALLOWED_PROJECTS
    /\ auth_codes[c].project \in DOMAIN PROJECT_URLS
    /\ netloc(auth_codes[c].redirect_uri) = netloc(PROJECT_URLS[auth_codes[c].project])

\* user holds a role assignment scoped to the project, active and unexpired
HasProjectRole(user, project) ==
  \E i \in 1..Len(user_roles) :
    /\ user_roles[i].user = user
    /\ project_get_by_code(project) # NULL
    /\ user_roles[i].project = project_get_by_code(project)
    /\ user_roles[i].is_active
    /\ (user_roles[i].expires_at = NoExpiry \/ user_roles[i].expires_at > now)

C12_FiveMinuteCode ==
  [][/\ Len(auth_codes') > Len(auth_codes)
          => auth_codes'[Len(auth_codes')].expires_at = now + 5 * 60
     /\ \A c \in 1..Len(auth_codes) :
          auth_codes[c].expires_at < now =>
            \A t \in ExchThreads, p \in SsoProjects, r \in SsoRedirectUris :
              exchange_auth_code_check(t, c, p, r) =>
                /\ xch'[t].pc = "idle"
                /\ resp'.status = 400
                /\ tokens' = tokens
                /\ auth_codes' = auth_codes]_vars

\* a call was refused for an unused code that the callback had issued and
\* that had expired
C12_Witness ==
  /\ resp.op = "exchange_auth_code" /\ resp.status = 400 /\ resp.detail = "expired"
  /\ resp.row \in 1..Len(auth_codes)
  /\ ~auth_codes[resp.row].is_used
  /\ auth_codes[resp.row].expires_at < now

\* cookie k is absent, or names no session, or a session that is inactive,
\* expired or owned by a disabled principal
NoValidSession(k) ==
  \/ k = NoRow
  \/ k \notin 1..Len(sessions)
  \/ ~sessions[k].is_active
  \/ sessions[k].expires_at < now
  \/ ~users[sessions[k].user].is_active

\* C11: an SSO callback without a valid session cookie redirects to the login
\* page with project, redirect_uri and state preserved, and creates no
\* authorization code.
C11_NoSessionLoginRequired ==
  [][\A k \in Cookies, p \in SsoProjects, r \in SsoRedirectUris, s \in SsoStates :
       (NoValidSession(k) /\ sso_callback(k, p, r, s))
       => /\ resp'.status = 307
          /\ resp'.location.to.path = "/api/v1/sso/login-page"
          /\ resp'.location.project = p
          /\ resp'.location.redirect_uri = r
          /\ resp'.location.state = s
          /\ resp'.location.code = NoRow
          /\ auth_codes' = auth_codes]_vars

\* the callback sent the holder of a disabled principal's session to the
\* login page, state included
C11_Witness ==
  /\ resp.op = "sso_callback" /\ resp.detail = "login-page"
  /\ resp.row \in 1..Len(sessions)
  /\ ~users[sessions[resp.row].user].is_active
  /\ resp.location.state # NULL

\* the RBAC resolver and its cache
RbacUsers == {"alice"}

RbacScopes == {NULL, "project-a"}

InitUserRoles ==
  { << [user |-> "alice", role |-> "viewer", project |-> "project-a",
        expires_at |-> TickStep, is_active |-> TRUE] >>,
    << [user |-> "alice", role |-> "viewer", project |-> "project-a",
        expires_at |-> NoExpiry, is_active |-> TRUE],
       [user |-> "alice", role |-> "editor", project |-> "project-a",
        expires_at |-> TickStep, is_active |-> TRUE] >>,
    << [user |-> "alice", role |-> "viewer", project |-> NULL,
        expires_at |-> NoExpiry, is_active |-> TRUE],
       [user |-> "alice", role |-> "editor", project |-> "project-a",
        expires_at |-> NoExpiry, is_active |-> FALSE] >> }

InitRBAC ==
  /\ now = 0
  /\ sessions = << >>
  /\ auth_codes = << >>
  /\ user_roles \in InitUserRoles
  /\ cache = [k \in CacheKeys |-> NoEntry]
  /\ tokens = {}
  /\ xch = [t \in ExchThreads |-> IdleX]
  /\ rd = IdleR
  /\ mut = IdleM
  /\ api_keys = << >>
  /\ resp = NoResp

NextRBAC ==
  \/ Tick
  \/ \E u \in RbacUsers, p \in RbacScopes : get_user_permissions_lookup(u, p)
  \/ get_user_permissions_query
  \/ get_user_permissions_set
  \/ \E u \in RbacUsers, r \in Roles, p \in RbacScopes : revoke_role_from_user_commit(u, r, p)
  \/ revoke_role_from_user_invalidate
  \/ \E u \in RbacUsers, r \in Roles, p \in RbacScopes, e \in {NoExpiry} :
       assign_role_to_user(u, r, p, e)

SpecRBAC == InitRBAC /\ [][NextRBAC]_vars

\* row i is an assignment of user that a query for project_id reads
InScope(i, user, project_id) ==
  /\ i \in 1..Len(user_roles)
  /\ user_roles[i].user = user
  /\ (project_id # NULL => user_roles[i].project = project_id)

\* the permissions that user has in scope project_id through row i and
\* through no other effective assignment
GrantedSolelyBy(i, user, project_id) ==
  IF InScope(i, user, project_id)
  THEN get_role_permissions(user_roles[i].role)
         \ compute_permissions([user_roles EXCEPT ![i].is_active = FALSE], user, project_id)
  ELSE {}

C6_NoStaleEntryAfterRace ==
  (/\ rd.pc = "idle" /\ mut.pc = "idle"
   /\ mut.op = "revoke" /\ mut.row # NoRow
   /\ rd.user = mut.user /\ rd.project = mut.project
   /\ \/ resp.op = "revoke_role_from_user"
      \/ (resp.op = "get_user_permissions" /\ resp.detail = "miss"))
  => \/ cache[cache_key(rd.user, rd.project)] = NoEntry
     \/ cache[cache_key(rd.user, rd.project)].perms
          = compute_permissions_at(user_roles, rd.user, rd.project, rd.at)

\* assignments of user that are active and unexpired and whose scope is the
\* project or is null (a global role)
EffectiveInScope(user, project_id) ==
  { i \in 1..Len(user_roles) :
      /\ user_roles[i].user = user
      /\ user_roles[i].project \in {project_id, NULL}
      /\ user_roles[i].is_active
      /\ ~(user_roles[i].expires_at # NoExpiry /\ user_roles[i].expires_at < now) }

\* C13: on a cache miss, get_user_permissions for a project computes exactly
\* the union of the permission codes of the roles whose assignment to the
\* user is active, unexpired and in scope for that project.
C13_ExactUnionOnMiss ==
  [][(get_user_permissions_query /\ rd.project # NULL)
     => rd'.perms = UNION { get_role_permissions(user_roles[i].role) :
                             i \in EffectiveInScope(rd.user, rd.project) }]_vars

\* C14: on a cache miss, get_user_permissions for a project includes the
\* permissions of every active, unexpired assignment of the user whose
\* project scope is null.
C14_GlobalRoleVisibleEverywhere ==
  [][(get_user_permissions_query /\ rd.project # NULL)
     => \A i \in EffectiveInScope(rd.user, rd.project) :
          user_roles[i].project = NULL
          => get_role_permissions(user_roles[i].role) \subseteq rd'.perms]_vars

\* the permission guard of the protected endpoints
GuardUsers == {"alice", "root"}

\* permission codes a guard may require
PermissionCodes == {"reports.view", "data.edit"}

NextGuard ==
  \/ Tick
  \/ \E u \in GuardUsers \cup {NULL}, c \in PermissionCodes, p \in RbacScopes :
       require_permission(u, c, p)
  \/ \E u \in GuardUsers, c \in PermissionCodes, p \in RbacScopes :
       check_permission(u, c, p)
  \/ \E u \in GuardUsers \cup {NULL}, r \in Roles, p \in RbacScopes :
       require_roles(u, {r}, p)

SpecGuard == InitRBAC /\ [][NextGuard]_vars

\* C15 as stated: for a superuser, check_permission and the require_permission
\* guard both grant every permission code in every project scope and leave
\* the cache alone.
C15_SuperuserGrantedEverywhere ==
  [][\A u \in GuardUsers, c \in PermissionCodes, p \in RbacScopes :
       users[u].is_superuser =>
         /\ require_permission(u, c, p) => (resp'.status = 200 /\ cache' = cache)
         /\ check_permission(u, c, p) => (resp'.detail = "True" /\ cache' = cache)]_vars

\* C15 amended: for a superuser the require_permission guard admits the
\* request for every permission code in every project scope and leaves the
\* cache alone.
C15_SuperuserPassesGuard ==
  [][\A u \in GuardUsers, c \in PermissionCodes, p \in RbacScopes :
       (users[u].is_superuser /\ require_permission(u, c, p))
       => (resp'.status = 200 /\ cache' = cache)]_vars

\* the guard admitted a superuser who holds no role assignment
C15_Witness ==
  /\ resp.op = "require_permission" /\ resp.status = 200
  /\ resp.user # NULL /\ users[resp.user].is_superuser
  /\ \A i \in 1..Len(user_roles) : user_roles[i].user # resp.user

\* C16: right after a call of assign_role_to_user(user, role, project), the
\* cache entry of (user, project) is absent and get_user_permissions(user,
\* project) includes the permissions of the granted role.
C16_GrantVisibleAtOnce ==
  (resp.op = "assign_role_to_user" /\ mut.op = "assign" /\ mut.pc = "idle")
  => /\ cache[cache_key(mut.user, mut.project)] = NoEntry
     /\ get_role_permissions(mut.role) \subseteq get_user_permissions(mut.user, mut.project)

\* ------------------------------------------- the authenticator chain, whole
\* keys a request may present as its API key: none, alice's key, root's key
\* that expires, a revoked key, a key no row has, the stored digest of
\* alice's key
ApiKeys ==
  {NULL, "ak_alice", "ak_root", "ak_revoked", "ak_test_key_12345", sha256("ak_alice")}

\* keys a request may present as its service key: none, the active key, a
\* retired key, a key no row has
ServiceKeys == {NULL, "sk_project_a", "sk_retired", "sk_test_service_key"}

\* values of the X-Project-ID header: absent, or a project
ProjectHeaders == {NULL, "project-a"}

\* a session of alice that expires, a session root has logged out of with
\* the access token of its login, an API key of alice that never expires, an
\* API key of root that expires, and a revoked API key of root
InitChain ==
  /\ now = 0
  /\ sessions = << [user |-> "alice", expires_at |-> TickStep, is_active |-> TRUE,
                    last_accessed_at |-> 0],
                   [user |-> "root", expires_at |-> hours(SESSION_EXPIRE_HOURS),
                    is_active |-> FALSE, last_accessed_at |-> 0] >>
  /\ auth_codes = << >>
  /\ user_roles = << >>
  /\ cache = [k \in CacheKeys |-> NoEntry]
  /\ tokens = { [sub |-> "root", session |-> 2, project |-> NULL, type |-> "access",
                 exp |-> TickStep, code |-> NoRow, by |-> "auth"] }
  /\ api_keys = << [user |-> "alice", key_hash |-> sha256("ak_alice"), is_active |-> TRUE,
                    expires_at |-> Never, last_used_at |-> Never],
                   [user |-> "root", key_hash |-> sha256("ak_root"), is_active |-> TRUE,
                    expires_at |-> TickStep - 1, last_used_at |-> Never],
                   [user |-> "root", key_hash |-> sha256("ak_revoked"), is_active |-> FALSE,
                    expires_at |-> Never, last_used_at |-> Never] >>
  /\ xch = [t \in ExchThreads |-> IdleX]
  /\ rd = IdleR
  /\ mut = IdleM
  /\ resp = NoResp

NextChain ==
  \/ Tick
  \/ \E c \in Cookies, a \in ApiKeys, s \in ServiceKeys, p \in ProjectHeaders,
        b \in tokens \cup {NoBearer} : authenticate_request(c, a, s, p, b)

SpecChain == InitChain /\ [][NextChain]_vars

\* the cookie names an active session whose expires_at has not passed
SessionCredentialValid(c) ==
  c \in 1..Len(sessions) /\ sessions[c].is_active /\ sessions[c].expires_at >= now

\* the key's digest is that of an active API key whose expires_at, if any,
\* has not passed
ApiKeyCredentialValid(a) ==
  /\ a # NULL
  /\ \E k \in 1..Len(api_keys) :
       /\ api_keys[k].key_hash = sha256(a) /\ api_keys[k].is_active
       /\ (api_keys[k].expires_at = Never \/ api_keys[k].expires_at >= now)

\* both service headers are present and the key's digest is that of an
\* active service key
ServiceKeyCredentialValid(s, p) ==
  /\ s # NULL /\ p # NULL
  /\ \E k \in 1..Len(service_keys) :
       service_keys[k].key_hash = sha256(s) /\ service_keys[k].is_active

\* the bearer token is signed by the server, unexpired, and names a user
BearerCredentialValid(b) ==
  b \in tokens /\ b.exp >= now /\ b.sub \in Users

\* the step is one authenticate_request call (its request is resp'.request)
AuthenticateRequestStep == now' = now /\ resp'.op = "authenticate_request"

\* the auth_type of the earliest strategy whose credential is valid
FirstValid(r) ==
  IF SessionCredentialValid(r.cookie) THEN "session"
  ELSE IF ApiKeyCredentialValid(r.api_key) THEN "api_key"
  ELSE IF ServiceKeyCredentialValid(r.service_key, r.project_id) THEN "service_key"
  ELSE IF BearerCredentialValid(r.bearer) THEN "jwt"
  ELSE "none"

C19_TimestampsOnlyByWinner ==
  [][AuthenticateRequestStep =>
       /\ \A k \in 1..Len(sessions) :
            sessions'[k].last_accessed_at # sessions[k].last_accessed_at =>
              resp'.detail = "session" /\ resp'.request.cookie = k
       /\ \A k \in 1..Len(api_keys) :
            api_keys'[k].last_used_at # api_keys[k].last_used_at =>
              /\ resp'.detail = "api_key"
              /\ api_keys[k].key_hash = sha256(resp'.request.api_key)]_vars

\* the session strategy ran on an expired session and failed, the API-key
\* strategy answered: the session's last_accessed_at is older than the call,
\* the key's last_used_at is the time of the call
C19_Witness ==
  /\ resp.op = "authenticate_request" /\ resp.detail = "api_key"
  /\ resp.request.cookie = 1 /\ resp.request.api_key = "ak_alice"
  /\ ~sessions[1].is_active /\ sessions[1].expires_at < now
  /\ sessions[1].last_accessed_at < now
  /\ api_keys[1].last_used_at = now

\* C20: authenticate_request answers with auth_type service_key only if both
\* the service-key header and the project header are present and the key's
\* digest is that of a stored active service key, and then it returns no
\* principal; it does so whenever the session and API-key strategies do not
\* succeed and such a key is presented with a project header.
C20_ServiceKeyStrategy ==
  [][AuthenticateRequestStep =>
       LET r == resp'.request IN
       /\ resp'.detail = "service_key" =>
            /\ r.service_key # NULL /\ r.project_id # NULL
            /\ \E k \in 1..Len(service_keys) :
                 service_keys[k].key_hash = sha256(r.service_key) /\ service_keys[k].is_active
            /\ resp'.user = NULL
       /\ ( /\ ~SessionCredentialValid(r.cookie) /\ ~ApiKeyCredentialValid(r.api_key)
            /\ ServiceKeyCredentialValid(r.service_key, r.project_id) )
          => (resp'.detail = "service_key" /\ resp'.user = NULL)]_vars

\* a request with the active service key, a project header and a valid
\* bearer token was answered by the service-key strategy, with no principal
C20_Witness ==
  /\ resp.op = "authenticate_request" /\ resp.detail = "service_key"
  /\ resp.user = NULL
  /\ resp.request.service_key = "sk_project_a" /\ resp.request.project_id = "project-a"
  /\ resp.request.bearer \in tokens /\ resp.request.bearer.exp >= now

\* ------------------------------------------------ login and its credentials
\* no session yet; the clock moves by half hours
NextLogin ==
  \/ TickHalfHour
  \/ \E u \in Usernames, ok \in BOOLEAN : login(u, ok)
  \/ \E c \in Cookies : logout(c)
  \/ \E c \in Cookies, b \in tokens \cup {NoBearer} :
       authenticate_request(c, NULL, NULL, NULL, b)

InitLogin == Init /\ sessions = << >>

SpecLogin == InitLogin /\ [][NextLogin]_vars

\* session k is active, its expires_at has not passed
LiveSession(k) ==
  k \in 1..Len(sessions) /\ sessions[k].is_active /\ sessions[k].expires_at >= now

\* C21 as stated: while the session a login created is neither expired nor
\* revoked, authenticate_request resolves the user from the session token as
\* cookie, and from the access token of that login as bearer token.
C21_LoginCredentialsResolve ==
  [][AuthenticateRequestStep =>
       LET r == resp'.request IN
       /\ LiveSession(r.cookie) => resp'.user = sessions[r.cookie].user
       /\ (r.cookie = NoRow /\ r.bearer \in tokens /\ LiveSession(r.bearer.session))
            => resp'.user = r.bearer.sub]_vars

\* C21, amended: the session token as cookie resolves the user while the
\* session is neither expired nor revoked; the access token as bearer token
\* resolves the user exactly until the token's own exp, whatever the state
\* of the session.
C21_CredentialsResolveUntilOwnExpiry ==
  [][AuthenticateRequestStep =>
       LET r == resp'.request IN
       /\ LiveSession(r.cookie) => resp'.user = sessions[r.cookie].user
       /\ (r.cookie = NoRow /\ r.bearer \in tokens) =>
            resp'.user = (IF r.bearer.exp >= now THEN r.bearer.sub ELSE NULL)]_vars

\* the access token of a login was refused as bearer token after its exp,
\* while the session of that login was still live
C21_Witness ==
  /\ resp.op = "authenticate_request" /\ resp.user = NULL
  /\ resp.request.cookie = NoRow /\ resp.request.bearer \in tokens
  /\ resp.request.bearer.exp < now
  /\ LiveSession(resp.request.bearer.session)

\* ----------------------------------------------------- renewal and revoke
\* C22: a successful refresh_token leaves the sessions table as it was (the
\* session keeps its tokens, its expires_at and stays active), answers with
\* the refresh token it was given, and the access token it mints names that
\* session and its user; the refresh token still passes refresh_token's
\* checks afterwards.
C22_RefreshKeepsSession ==
  [][\A k \in Cookies :
       (refresh_token(k) /\ resp'.status = 200) =>
         /\ sessions' = sessions
         /\ resp'.row = k /\ resp'.user = sessions[k].user
         /\ \E t \in tokens' :
              /\ t.session = k /\ t.sub = sessions[k].user
              /\ t.exp = now + minutes(JWT_ACCESS_TOKEN_EXPIRE_MINUTES)
              /\ tokens' = tokens \cup {t}
         /\ get_by_refresh_token(k)' = k
         /\ sessions'[k].is_active /\ ~(sessions'[k].expires_at < now')]_vars

\* a session was renewed some time after it was created: it is still active
\* and an access token minted at the renewal names it
C22_Witness ==
  /\ resp.op = "refresh_token" /\ resp.status = 200 /\ now > 0
  /\ sessions[resp.row].is_active
  /\ \E t \in tokens :
       t.session = resp.row /\ t.exp = now + minutes(JWT_ACCESS_TOKEN_EXPIRE_MINUTES)

\* C23: refresh_token answers 401 and mints no access token when its refresh
\* token belongs to no session, to an inactive session, or to a session whose
\* expires_at has passed; in the last case the session is inactive afterwards.
C23_RefreshRejected ==
  [][\A k \in Cookies :
       ( /\ refresh_token(k)
         /\ \/ k \notin 1..Len(sessions)
            \/ ~sessions[k].is_active
            \/ sessions[k].expires_at < now )
       => /\ resp'.status = 401 /\ resp'.user = NULL
          /\ tokens' = tokens
          /\ ExpiredActive(k) => ~sessions'[k].is_active
          /\ ~ExpiredActive(k) => sessions' = sessions]_vars

\* a renewal was refused for a session that had expired, and the session is
\* now inactive
C23_Witness ==
  /\ resp.op = "refresh_token" /\ resp.status = 401
  /\ resp.detail = "Refresh token expired"
  /\ ~sessions[resp.row].is_active /\ sessions[resp.row].expires_at < now
  /\ \A t \in tokens : t.session # resp.row

\* C24: logout never fails; with a token of no session or of an inactive
\* session it changes no stored record; with the token of an active session
\* it clears that session's is_active and nothing else, so a second logout
\* with the same token finds an inactive session and changes nothing.
C24_LogoutIdempotent ==
  [][\A k \in Cookies :
       logout(k) =>
         /\ resp'.status = 200
         /\ (k \notin 1..Len(sessions) \/ ~sessions[k].is_active) => sessions' = sessions
         /\ (k \in 1..Len(sessions) /\ sessions[k].is_active) =>
              sessions' = [sessions EXCEPT ![k].is_active = FALSE]
         /\ get_by_token(k)' = NoRow
         /\ UNCHANGED <<auth_codes, user_roles, cache, tokens, api_keys>>]_vars

\* logout was called with the token of a session that was already inactive:
\* it answered without error and found nothing to revoke
C24_Witness ==
  /\ resp.op = "logout" /\ resp.status = 200 /\ resp.detail = "False"
  /\ resp.row \in 1..Len(sessions)
  /\ ~sessions[resp.row].is_active /\ sessions[resp.row].expires_at >= now

\* ------------------------------------------------------------ global logout
\* alice is logged in from two browsers and holds a project-a access token
\* from an earlier code exchange
InitLogout ==
  /\ now = 0
  /\ sessions = << [user |-> "alice", expires_at |-> hours(SESSION_EXPIRE_HOURS),
                    is_active |-> TRUE, last_accessed_at |-> 0],
                   [user |-> "alice", expires_at |-> hours(SESSION_EXPIRE_HOURS),
                    is_active |-> TRUE, last_accessed_at |-> 0] >>
  /\ auth_codes = << [user |-> "alice", project |-> "project-a",
                      redirect_uri |-> [scheme |-> "http", netloc |-> "localhost:8001",
                                        path |-> "/cb"],
                      expires_at |-> TickStep - minutes(JWT_ACCESS_TOKEN_EXPIRE_MINUTES)
                                       + minutes(AUTH_CODE_MINUTES),
                      is_used |-> TRUE,
                      used_at |-> TickStep - minutes(JWT_ACCESS_TOKEN_EXPIRE_MINUTES),
                      created_at |-> TickStep - minutes(JWT_ACCESS_TOKEN_EXPIRE_MINUTES)] >>
  /\ user_roles = << [user |-> "alice", role |-> "viewer", project |-> "project-a",
                      expires_at |-> NoExpiry, is_active |-> TRUE] >>
  /\ cache = [k \in CacheKeys |-> NoEntry]
  /\ tokens = { [sub |-> "alice", session |-> NoRow, project |-> "project-a",
                 type |-> "sso_access", exp |-> TickStep, code |-> 1, by |-> "x1"] }
  /\ xch = [t \in ExchThreads |-> IdleX]
  /\ rd = IdleR
  /\ mut = IdleM
  /\ api_keys = << >>
  /\ resp = NoResp

NextLogout ==
  \/ Tick
  \/ \E c \in Cookies : logout(c)
  \/ \E b \in tokens \cup {NoBearer}, p \in SsoProjects : get_sso_user_info(b, p)

SpecLogout == InitLogout /\ [][NextLogout]_vars

\* C25: logout changes nothing but the is_active flag of the session its
\* token names (every other session, of the same user too, is as before, and
\* no token is withdrawn), and user-info accepts a project access token for
\* its project as long as the token's exp has not passed, whatever the state
\* of the user's sessions.
C25_LogoutTouchesOneSession ==
  [][/\ \A k \in Cookies :
          logout(k) =>
            /\ \A j \in 1..Len(sessions) :
                 sessions'[j] = IF j = k THEN [sessions[j] EXCEPT !.is_active = FALSE]
                                ELSE sessions[j]
            /\ Len(sessions') = Len(sessions)
            /\ UNCHANGED <<auth_codes, user_roles, cache, tokens, api_keys>>
     /\ \A b \in tokens :
          ( /\ get_sso_user_info(b, b.project)
            /\ b.type = "sso_access" /\ b.exp >= now
            /\ users[b.sub].is_active )
          => (resp'.status = 200 /\ resp'.user = b.sub)]_vars

\* user-info accepted alice's project access token after one of her two
\* sessions was logged out; the other session is still active
C25_Witness ==
  /\ resp.op = "get_sso_user_info" /\ resp.status = 200 /\ resp.user = "alice"
  /\ ~sessions[1].is_active /\ sessions[2].is_active
  /\ sessions[2].user = "alice" /\ sessions[1].user = "alice"

\* ------------------------------------------------------------ session probe
\* C26: check-session creates no authorization code and no token and leaves
\* every stored record (sessions, codes, role assignments, cache entries,
\* API keys) as it was, whatever the state of the session it is asked about.
C26_CheckSessionReadOnly ==
  [][\A k \in Cookies :
       check_sso_session(k, "project-a") =>
         UNCHANGED <<sessions, auth_codes, user_roles, cache, tokens, api_keys>>]_vars

\* ------------------------------------------------------------------ grants
\* rows of user_roles for (user, role, project) with the given is_active
Assignments(urs, user, role, project_id, active) ==
  { i \in 1..Len(urs) :
      /\ urs[i].user = user /\ urs[i].role = role /\ urs[i].project = project_id
      /\ urs[i].is_active = active }

\* answers by which the assign endpoint can refuse a request because of what
\* it asks for: 400 (its except ValueError clause) or 409
ConflictStatuses == {400, 409}

\* C27: a grant for a (user, role, project) that already has an active
\* assignment is refused as a conflict, and the table of assignments is left
\* as it was.
C27_DuplicateGrantIsConflict ==
  [][\A u \in Users, r \in Roles, p \in DBProjects \cup {NULL} :
       ( /\ assign_role_to_user(u, r, p, NoExpiry)
         /\ Assignments(user_roles, u, r, p, TRUE) # {} )
       => (resp'.status \in ConflictStatuses /\ user_roles' = user_roles)]_vars

\* C28: a grant for a (user, role, project) whose only assignment is inactive
\* makes that row active again and adds no row, and there is never more than
\* one row for a (user, role, project).
C28_RegrantReactivates ==
  [][/\ \A u \in Users, r \in Roles, p \in DBProjects \cup {NULL} :
          ( /\ assign_role_to_user(u, r, p, NoExpiry)
            /\ Assignments(user_roles, u, r, p, TRUE) = {}
            /\ Assignments(user_roles, u, r, p, FALSE) # {} )
          => /\ Len(user_roles') = Len(user_roles)
             /\ \A i \in Assignments(user_roles, u, r, p, FALSE) : user_roles'[i].is_active
     /\ \A i, j \in 1..Len(user_roles') :
          ( /\ user_roles'[i].user = user_roles'[j].user
            /\ user_roles'[i].role = user_roles'[j].role
            /\ user_roles'[i].project = user_roles'[j].project ) => i = j]_vars

\* ----------------------------------------------------- expired assignments
\* an active assignment whose expires_at has passed
ExpiredAssignment(i) ==
  /\ user_roles[i].is_active
  /\ user_roles[i].expires_at # NoExpiry /\ user_roles[i].expires_at < now

\* C29: when permission resolution reads the assignments of a user (a cache
\* miss) and one of them is active with an expires_at that has passed, that
\* assignment is inactive afterwards.
C29_ExpiryObservedDeactivates ==
  [][\A u \in GuardUsers, c \in PermissionCodes, p \in RbacScopes :
       ( /\ check_permission(u, c, p)
         /\ cache_get(cache, cache_key(u, p)).perms = {} )
       => \A i \in get_user_roles(user_roles, u, p) :
            ExpiredAssignment(i) => ~user_roles'[i].is_active]_vars

\* user holds role through an assignment that is active and whose expires_at
\* is null or has not passed
HoldsRole(user, role) ==
  \E i \in 1..Len(user_roles) :
    /\ user_roles[i].user = user /\ user_roles[i].role = role
    /\ user_roles[i].is_active
    /\ (user_roles[i].expires_at = NoExpiry \/ user_roles[i].expires_at >= now)

\* C30: every role get_user_roles lists for a user is held through an
\* assignment that is active and unexpired, and the require_roles guard
\* admits a user who is no superuser only for such a role.
C30_RoleListOnlyEffective ==
  [][/\ \A u \in GuardUsers, p \in RbacScopes :
          \A r \in role_get_user_roles(u, p) : HoldsRole(u, r)
     /\ \A u \in GuardUsers, r \in Roles, p \in RbacScopes :
          ( /\ require_roles(u, {r}, p)
            /\ ~users[u].is_superuser /\ resp'.status = 200 )
          => HoldsRole(u, r)]_vars

\* ------------------------------------------------- the exchange, step by step
\* C31: an exchange attempt that has passed the lookup, used, expiry and
\* parameter checks marks the code used, and the code stays used whatever the
\* user check then finds; for a missing or disabled principal the attempt
\* answers 401 and mints nothing, no token is ever minted for that code, and
\* every later attempt on it is refused at once.
C31_CodeSpentWhateverOutcome ==
  [][/\ \A t \in ExchThreads :
          /\ exchange_auth_code_mark(t) => auth_codes'[xch[t].code].is_used
          /\ exchange_auth_code_mint(t) =>
               /\ auth_codes'[xch[t].code].is_used
               /\ ~users[auth_codes[xch[t].code].user].is_active =>
                    (resp'.status = 401 /\ tokens' = tokens)
     /\ \A c \in 1..Len(auth_codes) :
          ~users[auth_codes[c].user].is_active => TokensOf(c)' = {}
     /\ (resp.op = "exchange_auth_code" /\ resp.status = 401) =>
          \A t \in ExchThreads, p \in SsoProjects, r \in SsoRedirectUris :
            exchange_auth_code_check(t, resp.row, p, r) =>
              (xch'[t].pc = "idle" /\ resp'.status = 400 /\ tokens' = tokens)]_vars

\* an attempt on a code that had not expired failed at the user check: the
\* code is used and no token was minted for it
C31_Witness ==
  /\ resp.op = "exchange_auth_code" /\ resp.status = 401
  /\ auth_codes[resp.row].is_used /\ auth_codes[resp.row].expires_at >= now
  /\ ~users[auth_codes[resp.row].user].is_active
  /\ TokensOf(resp.row) = {}

\* --------------------------------------------- expired and unknown credentials
\* a session of alice that expires, and an authorization code the callback
\* issued to her at time 0
InitCredentialExpiry ==
  /\ now = 0
  /\ sessions = << [user |-> "alice", expires_at |-> TickStep, is_active |-> TRUE,
                    last_accessed_at |-> 0] >>
  /\ auth_codes = generate_auth_code(<< >>, "alice", "project-a",
                     [scheme |-> "http", netloc |-> "localhost:8001", path |-> "/cb"])
  /\ user_roles = << [user |-> "alice", role |-> "viewer", project |-> "project-a",
                      expires_at |-> NoExpiry, is_active |-> TRUE] >>
  /\ cache = [k \in CacheKeys |-> NoEntry]
  /\ tokens = {}
  /\ xch = [t \in ExchThreads |-> IdleX]
  /\ rd = IdleR
  /\ mut = IdleM
  /\ api_keys = << >>
  /\ resp = NoResp

\* renewal and exchange requests, with credentials that have a row and
\* credentials that have none
NextCredentialExpiry ==
  \/ Tick
  \/ \E c \in Cookies : refresh_token(c)
  \/ \E c \in 1..(Len(auth_codes) + 1), p \in SsoProjects, r \in SsoRedirectUris :
       exchange_auth_code_check("x1", c, p, r)
  \/ exchange_auth_code_mark("x1")
  \/ exchange_auth_code_mint("x1")

SpecCredentialExpiry == InitCredentialExpiry /\ [][NextCredentialExpiry]_vars

\* what refresh_token answers to a refresh token no session has
RefreshTokenNotFound == [status |-> 401, detail |-> "Invalid refresh token"]

\* what exchange_auth_code answers to a code no row has
AuthCodeNotFound == [status |-> 400, detail |-> "invalid"]

\* the status and the message of a response
Outward(r) == [status |-> r.status, detail |-> r.detail]

\* C32: refresh_token gives a refresh token whose session exists and has
\* expired the answer (status and message) it gives a refresh token of no
\* session, and exchange_auth_code gives a code that exists, is unused and
\* has expired the answer it gives a code that does not exist.
C32_ExpiredLooksUnknown ==
  [][/\ \A k \in Cookies :
          refresh_token(k) =>
            /\ k \notin 1..Len(sessions) => Outward(resp') = RefreshTokenNotFound
            /\ ExpiredActive(k) => Outward(resp') = RefreshTokenNotFound
     /\ \A c \in 1..(Len(auth_codes) + 1), p \in SsoProjects, r \in SsoRedirectUris :
          exchange_auth_code_check("x1", c, p, r) =>
            /\ c \notin 1..Len(auth_codes) => Outward(resp') = AuthCodeNotFound
            /\ ( /\ c \in 1..Len(auth_codes) /\ ~auth_codes[c].is_used
                 /\ auth_codes[c].expires_at < now )
               => Outward(resp') = AuthCodeNotFound]_vars

\* ------------------------------------------------------------ refused logins
\* what login answers to a username no user has
LoginNotFound == [status |-> 401, detail |-> "Incorrect email or password"]

\* C33: login with the username of an existing user, active or disabled, and
\* a wrong password gives the answer (status and message) it gives a username
\* no user has, and in both cases creates no session and mints no token.
C33_WrongPasswordLooksUnknown ==
  [][\A u \in Usernames, ok \in BOOLEAN :
       ( /\ login(u, ok)
         /\ u \notin Users \/ ~ok )
       => /\ Outward(resp') = LoginNotFound
          /\ resp'.user = NULL
          /\ sessions' = sessions /\ tokens' = tokens]_vars

\* a login naming a disabled user with a wrong password was refused with the
\* answer of an unknown username, and there is no session
C33_Witness ==
  /\ resp.op = "login" /\ Outward(resp) = LoginNotFound
  /\ resp.request.username \in Users /\ ~users[resp.request.username].is_active
  /\ ~resp.request.password_ok
  /\ sessions = << >>

\* ------------------------------------------------------- refused exchanges
\* code c has a row, is unused and has not expired
FreshCode(c) ==
  c \in 1..Len(auth_codes) /\ ~auth_codes[c].is_used /\ ~(auth_codes[c].expires_at < now)

\* code c has a row, and project or redirect_uri is not the one it records
ParametersDiffer(c, project, redirect_uri) ==
  /\ c \in 1..Len(auth_codes)
  /\ auth_codes[c].project # project \/ auth_codes[c].redirect_uri # redirect_uri

\* C34: an exchange attempt on a code that is absent, already used, expired
\* or presented with a wrong project or redirect_uri is refused and leaves
\* every code record as it was (is_used and used_at included); a code refused
\* only for its parameters still passes every check with the recorded
\* parameters, and an attempt with them goes on to mark_as_used.
C34_RefusedExchangeLeavesCode ==
  [][\A c \in 1..MaxCodes, p \in SsoProjects, r \in SsoRedirectUris :
       exchange_auth_code_check("x1", c, p, r) =>
         /\ (~FreshCode(c) \/ ParametersDiffer(c, p, r)) =>
              /\ resp'.status = 400 /\ xch'["x1"].pc = "idle"
              /\ auth_codes' = auth_codes /\ tokens' = tokens
         /\ (FreshCode(c) /\ ParametersDiffer(c, p, r)) =>
              exchange_auth_code_verdict(c, auth_codes[c].project,
                                         auth_codes[c].redirect_uri)' = "ok"
         /\ (FreshCode(c) /\ ~ParametersDiffer(c, p, r)) => xch'["x1"].pc = "mark"]_vars

\* an attempt with a wrong project or redirect_uri was refused some time
\* after the code was issued; the code is unused, was never marked, and
\* passes every check with its recorded parameters
C34_Witness ==
  /\ resp.op = "exchange_auth_code" /\ resp.detail = "mismatch"
  /\ FreshCode(resp.row)
  /\ auth_codes[resp.row].used_at = Never /\ auth_codes[resp.row].created_at < now
  /\ exchange_auth_code_verdict(resp.row, auth_codes[resp.row].project,
                                auth_codes[resp.row].redirect_uri) = "ok"

\* ------------------------------------------------------- cache and store
\* the time cache_manager.set wrote entry e
WrittenAt(e) == e.expires - CACHE_PERMISSION_TTL

\* an assignment of user has passed its expires_at since time t
ExpiredSince(user, t) ==
  \E i \in 1..Len(user_roles) :
    /\ user_roles[i].user = user
    /\ user_roles[i].expires_at # NoExpiry
    /\ user_roles[i].expires_at >= t /\ user_roles[i].expires_at < now

\* C35: while no grant or revoke is in progress, every permission-cache
\* entry user_permissions:{user}:{scope}, the null-scope entry included, holds
\* the set get_user_permissions would compute from the store for that key,
\* unless an assignment of the user has passed its expiry since the entry was
\* written.
C35_CacheMatchesStore ==
  mut.pc = "idle" =>
    \A u \in RbacUsers, p \in RbacScopes :
      LET entry == cache_get(cache, cache_key(u, p)) IN
      (entry # NoEntry /\ ~ExpiredSince(u, WrittenAt(entry)))
      => entry.perms = compute_permissions(user_roles, u, p)

\* ------------------------------------------------------------ bearer tokens
\* a token that was not signed with the server's key
ForgedToken ==
  [sub |-> "root", session |-> NoRow, project |-> "project-a", type |-> "sso_access",
   exp |-> MaxTime + TickStep, code |-> NoRow, by |-> "forger"]

\* what an Authorization header may carry
Bearers == tokens \cup {NoBearer, ForgedToken}

\* projects a user-info request may name
UserInfoProjects == {"project-a", "project-b"}

\* alice and bob are logged in and hold the access tokens of their logins
\* (bob's account was disabled afterwards); alice also holds the project-a
\* access token of a code exchange; one login token names carol, whose user
\* row has been deleted since
InitBearer ==
  /\ now = 0
  /\ sessions = << [user |-> "alice", expires_at |-> hours(SESSION_EXPIRE_HOURS),
                    is_active |-> TRUE, last_accessed_at |-> 0],
                   [user |-> "bob", expires_at |-> hours(SESSION_EXPIRE_HOURS),
                    is_active |-> TRUE, last_accessed_at |-> 0] >>
  /\ auth_codes = << [user |-> "alice", project |-> "project-a",
                      redirect_uri |-> [scheme |-> "http", netloc |-> "localhost:8001",
                                        path |-> "/cb"],
                      expires_at |-> TickStep - minutes(JWT_ACCESS_TOKEN_EXPIRE_MINUTES)
                                       + minutes(AUTH_CODE_MINUTES),
                      is_used |-> TRUE,
                      used_at |-> TickStep - minutes(JWT_ACCESS_TOKEN_EXPIRE_MINUTES),
                      created_at |-> TickStep - minutes(JWT_ACCESS_TOKEN_EXPIRE_MINUTES)] >>
  /\ user_roles = << [user |-> "alice", role |-> "viewer", project |-> "project-a",
                      expires_at |-> NoExpiry, is_active |-> TRUE] >>
  /\ cache = [k \in CacheKeys |-> NoEntry]
  /\ tokens = { [sub |-> "alice", session |-> 1, project |-> NULL, type |-> "access",
                 exp |-> TickStep, code |-> NoRow, by |-> "auth"],
                [sub |-> "bob", session |-> 2, project |-> NULL, type |-> "access",
                 exp |-> TickStep, code |-> NoRow, by |-> "auth"],
                [sub |-> "carol", session |-> NoRow, project |-> NULL, type |-> "access",
                 exp |-> TickStep, code |-> NoRow, by |-> "auth"],
                [sub |-> "alice", session |-> NoRow, project |-> "project-a",
                 type |-> "sso_access", exp |-> TickStep, code |-> 1, by |-> "x1"] }
  /\ xch = [t \in ExchThreads |-> IdleX]
  /\ rd = IdleR
  /\ mut = IdleM
  /\ api_keys = << >>
  /\ resp = NoResp

\* requests that carry a bearer token and no other credential, and logouts
NextBearer ==
  \/ Tick
  \/ \E c \in Cookies : logout(c)
  \/ \E b \in Bearers : authenticate_request(NoRow, NULL, NULL, NULL, b)
  \/ \E b \in Bearers, p \in UserInfoProjects : get_sso_user_info(b, p)

SpecBearer == InitBearer /\ [][NextBearer]_vars

\* C36: for a request whose only credential is a bearer token,
\* authenticate_request resolves the token's subject exactly when the token
\* is signed by the server, its exp has not passed and the subject's user row
\* exists; neither the state of the session named in the token nor the
\* token's type or project claim has a part in it.
C36_BearerOutcome ==
  [][(AuthenticateRequestStep /\ resp'.request.bearer # NoBearer) =>
       LET b == resp'.request.bearer
           accepted == b \in tokens /\ b.exp >= now /\ b.sub \in Users
       IN /\ resp'.user = (IF accepted THEN b.sub ELSE NULL)
          /\ resp'.detail = (IF accepted THEN "jwt" ELSE "none")]_vars

\* the access token of a login was accepted as bearer token after the session
\* it names had been logged out
C36_Witness ==
  /\ resp.op = "authenticate_request" /\ resp.detail = "jwt"
  /\ resp.request.bearer.type = "access"
  /\ resp.user = resp.request.bearer.sub
  /\ resp.request.bearer.session \in 1..Len(sessions)
  /\ ~sessions[resp.request.bearer.session].is_active

\* C37: user-info answers 200 only to a token signed by the server whose type
\* is sso_access and whose project claim is the project the request names; a
\* token of another project, and a login access token (no project claim), is
\* answered 401 for every project, and nothing is cached for it.
C37_UserInfoProjectBound ==
  [][\A b \in Bearers, p \in UserInfoProjects :
       get_sso_user_info(b, p) =>
         /\ resp'.status = 200 =>
              (b \in tokens /\ b.type = "sso_access" /\ b.project = p)
         /\ (b.type # "sso_access" \/ b.project # p) =>
              (resp'.status = 401 /\ resp'.user = NULL /\ cache' = cache)]_vars

\* user-info refused a project access token that had not expired, of an
\* active user, because the request named another project
C37_Witness ==
  /\ resp.op = "get_sso_user_info" /\ resp.status = 401
  /\ \E b \in tokens :
       /\ b.code = resp.row /\ b.type = "sso_access" /\ b.exp >= now
       /\ b.sub \in Users /\ users[b.sub].is_active
       /\ b.project # resp.detail /\ b.project \in UserInfoProjects

\* ------------------------------------------------- the two session validators
\* alice holds a session that expires; bob logged in before his account was
\* disabled
InitValidators ==
  /\ now = 0
  /\ sessions = << [user |-> "alice", expires_at |-> TickStep, is_active |-> TRUE,
                    last_accessed_at |-> 0],
                   [user |-> "bob", expires_at |-> hours(SESSION_EXPIRE_HOURS),
                    is_active |-> TRUE, last_accessed_at |-> 0] >>
  /\ auth_codes = << >>
  /\ user_roles = << >>
  /\ cache = [k \in CacheKeys |-> NoEntry]
  /\ tokens = {}
  /\ xch = [t \in ExchThreads |-> IdleX]
  /\ rd = IdleR
  /\ mut = IdleM
  /\ api_keys = << >>
  /\ resp = NoResp

\* the callers of the two validators, and logout
NextValidators ==
  \/ Tick
  \/ \E c \in Cookies : logout(c)
  \/ \E c \in Cookies : authenticate_request(c, NULL, NULL, NULL, NoBearer)
  \/ \E c \in Cookies : check_sso_session(c, "project-a")

SpecValidators == InitValidators /\ [][NextValidators]_vars

\* C38 as stated: for every session token, SessionAuthenticator.authenticate
\* and AuthService.get_user_by_session resolve the same principal (or both
\* none) and leave the sessions table in the same state.
C38_SessionValidatorsAgree ==
  \A k \in Cookies \ {NoRow} :
    /\ session_authenticate(k) = get_user_by_session(k)
    /\ session_authenticate_effect(k) = get_user_by_session_effect(k)

\* C38, amended: the two validators agree on the session record (both refuse
\* a token of no session, of an inactive session and of an expired one, and
\* both leave an expired session inactive), and on the user whenever that
\* user is active; for a live session SessionAuthenticator.authenticate also
\* resolves a disabled user and sets last_accessed_at, get_user_by_session
\* resolves no disabled user and writes nothing.
C38_SessionValidatorsAgreeOnRecord ==
  \A k \in Cookies \ {NoRow} :
    LET a == session_authenticate(k)
        g == get_user_by_session(k)
        ea == session_authenticate_effect(k)
        eg == get_user_by_session_effect(k)
    IN /\ g # NULL => (a = g /\ users[g].is_active)
       /\ a # NULL => /\ g = (IF users[a].is_active THEN a ELSE NULL)
                      /\ ea = update_last_accessed(sessions, k)
                      /\ eg = sessions
       /\ a = NULL => (g = NULL /\ ea = eg)
       /\ \A j \in 1..Len(sessions) : ea[j].is_active = eg[j].is_active

\* check-session refused the live session of a disabled user, which
\* SessionAuthenticator.authenticate resolves to that user, after both
\* validators had refused and deactivated an expired session
C38_Witness ==
  /\ resp.op = "check_sso_session" /\ resp.status = 401
  /\ \E j \in 1..Len(sessions) : ~sessions[j].is_active /\ sessions[j].expires_at < now
  /\ resp.row \in 1..Len(sessions)
  /\ get_user_by_session(resp.row) = NULL
  /\ session_authenticate(resp.row) = sessions[resp.row].user
  /\ session_authenticate_effect(resp.row) # get_user_by_session_effect(resp.row)

\* ------------------------------------------------------- cached empty sets
\* the cache holds an entry for (user, project_id) and its list is empty
CachedEmpty(user, project_id) ==
  LET entry == cache_get(cache, cache_key(user, project_id)) IN
  entry # NoEntry /\ entry.perms = {}

\* C39: a get_user_permissions call that finds a cached empty list does not
\* return it: it goes on to read the store, and the call run to its end
\* returns the set computed from the store and caches that set, so whatever
\* is effective in the store at the call is returned without an invalidation.
C39_EmptyEntryIsMiss ==
  [][\A u \in RbacUsers, p \in RbacScopes :
       CachedEmpty(u, p) =>
         /\ get_user_permissions_lookup(u, p) =>
              (rd'.pc = "query" /\ resp' = resp /\ cache' = cache)
         /\ get_user_permissions(u, p) = compute_permissions(user_roles, u, p)
         /\ get_user_permissions_effect(u, p)
              = cache_set(cache, cache_key(u, p), compute_permissions(user_roles, u, p),
                          CACHE_PERMISSION_TTL)]_vars

\* a call found the empty list an earlier call had cached for its key and is
\* about to read the store
C39_Witness ==
  /\ rd.pc = "query"
  /\ CachedEmpty(rd.user, rd.project)
  /\ WrittenAt(cache[cache_key(rd.user, rd.project)]) < now

\* ------------------------------------------------- grants over expired rows
\* C40: a grant for a (user, role, project) that has an active assignment
\* whose expires_at has passed is refused as a conflict, like a grant over an
\* unexpired one, and the assignment keeps its expires_at.
C40_DuplicateCheckIgnoresExpiry ==
  [][\A u \in RbacUsers, r \in Roles, p \in RbacScopes :
       ( /\ assign_role_to_user(u, r, p, NoExpiry)
         /\ \E i \in Assignments(user_roles, u, r, p, TRUE) : ExpiredAssignment(i) )
       => /\ resp'.status \in ConflictStatuses
          /\ \A i \in Assignments(user_roles, u, r, p, TRUE) :
               user_roles'[i].expires_at = user_roles[i].expires_at]_vars
====
